---- MODULE Spec2Model ----
(***************************************************************************)
(* Airlock identity layer: JWT issuance / validation (auth-service and the *)
(* shared airlock_common library), the authentication gate and the         *)
(* role-decision dependencies of the auth-service.                         *)
(*                                                                         *)
(* A token is modelled as the claim dictionary it carries together with    *)
(* the key and algorithm it was signed with; an HMAC signature verifies    *)
(* exactly when the verifying key equals the signing key.  A Python dict   *)
(* is a TLA+ record whose DOMAIN is the set of keys present.  The clock    *)
(* is in whole seconds (the libraries compare integer exp claims, and      *)
(* timedelta(minutes=..)/timedelta(days=..) keep the sub-second part).     *)
(***************************************************************************)
EXTENDS Integers, Sequences, FiniteSets, TLC

VARIABLES
    now,        \* true UTC time, whole seconds since the epoch
    tz,         \* local time zone of the auth-service process
    settings,   \* auth-service Settings (loaded once at start)
    bearer,     \* the credential the client currently holds
    origin,     \* how the credential in hand was made
    result,     \* the last operation and its outcome
    ticks,      \* number of clock steps taken
    scheme_error, \* status HTTPBearer() answers a request without credentials
    db,         \* the api-key-service's database session and api_keys table
    auth_code_store \* the mock OAuth provider's authorization codes

vars ==
    <<now, tz, settings, bearer, origin, result, ticks, scheme_error, db,
      auth_code_store>>

\* ------------------------------------------------------------------ bounds
MaxRolesLen ==
    2

MaxRequired ==
    2

MaxTicks ==
    2

\* rows ever inserted into api_keys
MaxKeys ==
    3

\* authorization codes ever issued by the mock OAuth provider
MaxCodes ==
    2

\* --------------------------------------------------------------- constants
ROLE_SUBMITTER ==
    "submitter"

ROLE_REVIEWER ==
    "reviewer"

ROLE_ADMIN ==
    "admin"

HTTP_200_OK ==
    200

HTTP_201_CREATED ==
    201

HTTP_204_NO_CONTENT ==
    204

HTTP_302_FOUND ==
    302

HTTP_400_BAD_REQUEST ==
    400

HTTP_401_UNAUTHORIZED ==
    401

HTTP_403_FORBIDDEN ==
    403

HTTP_404_NOT_FOUND ==
    404

HTTP_500_INTERNAL_SERVER_ERROR ==
    500

\* timedelta(minutes=10): the lifetime of an authorization code
CODE_EXPIRY_MINUTES ==
    10

SecondsPerMinute ==
    60

SecondsPerDay ==
    86400

\* ------------------------------------------------------- generic helpers
\* dict.get(key, default)
Get(d, k, default) ==
    IF k \in DOMAIN d THEN d[k] ELSE default

\* set(list)
ToSet(s) ==
    { s[i] : i \in 1..Len(s) }

\* all lists over S of length at most n
SeqsUpTo(S, n) ==
    UNION { [1..k -> S] : k \in 0..n }

\* truthiness of d.get(k) for a str-or-None value (None: k absent)
TruthyStr(d, k) ==
    k \in DOMAIN d /\ d[k] # ""

\* truthiness of d.get(k) for a list-or-None value (None: k absent)
TruthyList(d, k) ==
    k \in DOMAIN d /\ d[k] # <<>>

\* dict | {k: v}
Put(d, k, v) ==
    [x \in DOMAIN d \cup {k} |-> IF x = k THEN v ELSE d[x]]

\* the dict without key k
Without(d, k) ==
    [x \in DOMAIN d \ {k} |-> d[x]]

\* ------------------------------------------------------------ input sets
\* role strings that appear in tokens: the declared roles and a string that
\* differs from "admin" only in case
TokenRoleNames ==
    {ROLE_SUBMITTER, ROLE_REVIEWER, ROLE_ADMIN, "Admin"}

\* role strings endpoints may require: the declared ones, a case variant and
\* one declared nowhere
RequiredRoleNames ==
    {ROLE_SUBMITTER, ROLE_REVIEWER, ROLE_ADMIN, "Admin", "auditor"}

RoleLists ==
    SeqsUpTo(TokenRoleNames, MaxRolesLen)

RequiredTuples ==
    SeqsUpTo(RequiredRoleNames, MaxRequired)

\* ------------------------------------------------------------ time zones
\* A zone gives the local UTC offset as a function of the naive wall-clock
\* reading: `std` before the wall-clock instant `at`, `dst` from it on.
UtcOffset(zone, naive) ==
    IF naive < zone.at THEN zone.std ELSE zone.dst

\* datetime.timestamp() of a naive datetime: the reading is taken as local
\* time (time.mktime), so the zone's offset is subtracted
NaiveTimestamp(zone, naive) ==
    naive - UtcOffset(zone, naive)

\* ---------------------------------------------------------------- tokens
NoToken ==
    [kind |-> "none"]

\* a bearer string that is not a three-part compact JWT
GarbageToken ==
    [kind |-> "garbage"]

\* jwt.encode(claims, key, algorithm): header.payload.signature
JwtEncode(claims, key, algorithm) ==
    [kind |-> "jwt", claims |-> claims, key |-> key, alg |-> algorithm]

Ok(claims) ==
    [ok |-> TRUE, claims |-> claims]

Err(kind) ==
    [ok |-> FALSE, error |-> kind]

\* secrets.token_urlsafe(32): a random identifier
JtiValues ==
    {"jti-a", "jti-b"}

\* ----------------------------------------- shared library (airlock_common)
\* JWTConfig(secret_key, algorithm, issuer, access_token_expiry_minutes,
\*           refresh_token_expiry_days): stores its arguments unvalidated
JWTConfig(secret_key, algorithm, issuer, minutes, days) ==
    [secret_key |-> secret_key, algorithm |-> algorithm, issuer |-> issuer,
     access_token_expiry_minutes |-> minutes,
     refresh_token_expiry_days |-> days]

\* the optional claims both shared issuers add: each only when truthy
\* (api_key_id: when not None).  `a` holds the keyword arguments passed;
\* an argument left at its default None is absent from it.
SharedOptionalClaims(base, a) ==
    LET c1 == IF TruthyStr(a, "username") THEN Put(base, "username", a.username) ELSE base
        c2 == IF TruthyList(a, "roles") THEN Put(c1, "roles", a.roles) ELSE c1
        c3 == IF TruthyStr(a, "scope") THEN Put(c2, "scope", a.scope) ELSE c2
        c4 == IF "api_key_id" \in DOMAIN a THEN Put(c3, "api_key_id", a.api_key_id) ELSE c3
        c5 == IF TruthyList(a, "scopes") THEN Put(c4, "scopes", a.scopes) ELSE c4
        c6 == IF TruthyList(a, "permissions")
              THEN Put(c5, "permissions", a.permissions) ELSE c5
        c7 == IF TruthyStr(a, "auth_type") THEN Put(c6, "auth_type", a.auth_type) ELSE c6
    IN  c7

\* faulty variant of SharedCreateAccessToken: the default issuer instead of the
\* configured one
SharedCreateAccessToken_DefaultIssuer(config, a, t) ==
    LET expires_at == t + SecondsPerMinute * config.access_token_expiry_minutes
        base == [sub |-> a.subject, exp |-> expires_at, iat |-> t,
                 iss |-> "airlock", type |-> "access"]
    IN  JwtEncode(SharedOptionalClaims(base, a), config.secret_key, config.algorithm)

\* airlock_common.utils.jwt.create_access_token at UTC time t
\* (datetime.now(UTC) is timezone-aware, so timestamp() is the true time)
SharedCreateAccessToken(config, a, t) ==
    LET expires_at == t + SecondsPerMinute * config.access_token_expiry_minutes
        base == [sub |-> a.subject, exp |-> expires_at, iat |-> t,
                 iss |-> config.issuer, type |-> "access"]
    IN  JwtEncode(SharedOptionalClaims(base, a), config.secret_key, config.algorithm)

\* faulty variant of SharedCreateRefreshToken: the expiry taken in hours
SharedCreateRefreshToken_Hours(config, a, include_jti, jti, t) ==
    LET expires_at == t + 3600 * config.refresh_token_expiry_days
        base == [sub |-> a.subject, exp |-> expires_at, iat |-> t,
                 iss |-> config.issuer, type |-> "refresh"]
        withJti == IF include_jti THEN Put(base, "jti", jti) ELSE base
    IN  JwtEncode(SharedOptionalClaims(withJti, a), config.secret_key, config.algorithm)

\* airlock_common.utils.jwt.create_refresh_token at UTC time t; jti is the
\* random token id, added when include_jti
SharedCreateRefreshToken(config, a, include_jti, jti, t) ==
    LET expires_at == t + SecondsPerDay * config.refresh_token_expiry_days
        base == [sub |-> a.subject, exp |-> expires_at, iat |-> t,
                 iss |-> config.issuer, type |-> "refresh"]
        withJti == IF include_jti THEN Put(base, "jti", jti) ELSE base
    IN  JwtEncode(SharedOptionalClaims(withJti, a), config.secret_key, config.algorithm)

\* f"api-key-{api_key_id}"
ApiKeySubject(api_key_id) ==
    CASE api_key_id = 1 -> "api-key-1"
      [] api_key_id = 2 -> "api-key-2"
      [] api_key_id = 3 -> "api-key-3"
      [] api_key_id = 4 -> "api-key-4"
      [] api_key_id = 5 -> "api-key-5"
      [] api_key_id = 6 -> "api-key-6"

\* faulty variant of ApiKeyTokenArgs: the scopes are passed as roles too
ApiKeyTokenArgs_ScopesAsRoles(api_key_id, scopes, permissions) ==
    [subject |-> ApiKeySubject(api_key_id), api_key_id |-> api_key_id,
     roles |-> scopes,
     scopes |-> scopes, permissions |-> permissions, auth_type |-> "api_key"]

\* keyword arguments both API-key convenience functions pass on
ApiKeyTokenArgs(api_key_id, scopes, permissions) ==
    [subject |-> ApiKeySubject(api_key_id), api_key_id |-> api_key_id,
     scopes |-> scopes, permissions |-> permissions, auth_type |-> "api_key"]

\* create_api_key_access_token(config, api_key_id, scopes, permissions)
SharedCreateApiKeyAccessToken(config, api_key_id, scopes, permissions, t) ==
    SharedCreateAccessToken(
        config, ApiKeyTokenArgs(api_key_id, scopes, permissions), t)

\* create_api_key_refresh_token(config, api_key_id, scopes, permissions):
\* create_refresh_token with include_jti=False, so no token id is drawn
SharedCreateApiKeyRefreshToken(config, api_key_id, scopes, permissions, t) ==
    SharedCreateRefreshToken(
        config, ApiKeyTokenArgs(api_key_id, scopes, permissions), FALSE, "", t)

\* faulty variant of SharedDecodeToken: the signature not verified
SharedDecodeToken_Unverified(token, config, verify_iss, t) ==
    IF token.kind # "jwt" THEN Err("DecodeError")
    ELSE IF "iat" \in DOMAIN token.claims /\ token.claims.iat > t
         THEN Err("ImmatureSignatureError")
    ELSE IF "exp" \in DOMAIN token.claims /\ token.claims.exp <= t
         THEN Err("ExpiredSignatureError")
    ELSE IF verify_iss /\ "iss" \notin DOMAIN token.claims
         THEN Err("MissingRequiredClaimError")
    ELSE IF verify_iss /\ token.claims.iss # config.issuer
         THEN Err("InvalidIssuerError")
    ELSE Ok(token.claims)

\* airlock_common.utils.jwt.decode_token(token, config, verify_iss) at UTC
\* time t: PyJWT's jwt.decode with verify_signature, verify_exp, verify_iss
\* and the library's default iat check; any failure is re-raised
SharedDecodeToken(token, config, verify_iss, t) ==
    IF token.kind # "jwt" THEN Err("DecodeError")
    ELSE IF token.alg # config.algorithm THEN Err("InvalidAlgorithmError")
    ELSE IF token.key # config.secret_key THEN Err("InvalidSignatureError")
    ELSE IF "iat" \in DOMAIN token.claims /\ token.claims.iat > t
         THEN Err("ImmatureSignatureError")
    ELSE IF "exp" \in DOMAIN token.claims /\ token.claims.exp <= t
         THEN Err("ExpiredSignatureError")
    ELSE IF verify_iss /\ "iss" \notin DOMAIN token.claims
         THEN Err("MissingRequiredClaimError")
    ELSE IF verify_iss /\ token.claims.iss # config.issuer
         THEN Err("InvalidIssuerError")
    ELSE Ok(token.claims)

\* ------------------------------------------------ auth-service utils/jwt
\* claims of both auth-service issuers: sub, username and roles always,
\* scope only when truthy ("" stands for both None and the empty string).
\* now = datetime.utcnow() is naive, so int(x.timestamp()) reads it as
\* local time.
AuthClaims(st, zone, user_id, username, roles, scope, delta, type, t) ==
    LET base == [sub |-> user_id, username |-> username, roles |-> roles,
                 exp |-> NaiveTimestamp(zone, t + delta),
                 iat |-> NaiveTimestamp(zone, t),
                 iss |-> st.JWT_ISSUER, type |-> type]
    IN  IF scope # "" THEN Put(base, "scope", scope) ELSE base

\* auth-service create_access_token
AuthCreateAccessToken(st, zone, user_id, username, roles, scope, t) ==
    JwtEncode(
        AuthClaims(st, zone, user_id, username, roles, scope,
                   SecondsPerMinute * st.ACCESS_TOKEN_EXPIRY_MINUTES, "access", t),
        st.JWT_SECRET_KEY, st.JWT_ALGORITHM)

\* faulty variant of AuthCreateRefreshToken: no jti
AuthCreateRefreshToken_NoJti(st, zone, user_id, username, roles, scope, jti, t) ==
    JwtEncode(
        AuthClaims(st, zone, user_id, username, roles, scope,
                   SecondsPerDay * st.REFRESH_TOKEN_EXPIRY_DAYS, "refresh", t),
        st.JWT_SECRET_KEY, st.JWT_ALGORITHM)

\* auth-service create_refresh_token; jti = secrets.token_urlsafe(32)
AuthCreateRefreshToken(st, zone, user_id, username, roles, scope, jti, t) ==
    JwtEncode(
        Put(AuthClaims(st, zone, user_id, username, roles, scope,
                       SecondsPerDay * st.REFRESH_TOKEN_EXPIRY_DAYS, "refresh", t),
            "jti", jti),
        st.JWT_SECRET_KEY, st.JWT_ALGORITHM)

\* auth-service decode_token at UTC time t: python-jose's jwt.decode with
\* verify_signature and verify_exp and no issuer argument, so iss is not
\* compared; exp is compared with timegm(utcnow().utctimetuple()); every
\* failure is re-raised as JWTError("Invalid token: <message>")
AuthDecodeToken(st, token, t) ==
    IF token.kind # "jwt" THEN Err(<<"Invalid token: ", "Not enough segments">>)
    ELSE IF token.alg # st.JWT_ALGORITHM
         THEN Err(<<"Invalid token: ", "The specified alg value is not allowed">>)
    ELSE IF token.key # st.JWT_SECRET_KEY
         THEN Err(<<"Invalid token: ", "Signature verification failed.">>)
    ELSE IF "exp" \in DOMAIN token.claims /\ token.claims.exp < t
         THEN Err(<<"Invalid token: ", "Signature has expired.">>)
    ELSE Ok(token.claims)

\* -------------------------------------------- auth-service dependencies
Unauthorized(detail) ==
    [status |-> HTTP_401_UNAUTHORIZED, detail |-> detail,
     headers |-> [WWW_Authenticate |-> "Bearer"]]

\* UserContext(user_id, username, roles, scope); scope is None when the
\* claim is absent
UserContext(user_id, username, roles, claims) ==
    LET u == [user_id |-> user_id, username |-> username, roles |-> roles]
    IN  IF "scope" \in DOMAIN claims THEN Put(u, "scope", claims.scope) ELSE u

\* faulty variant of GetCurrentUser: no default role
GetCurrentUser_NoDefaultRole(st, token, t) ==
    IF token.kind = "none"
    THEN Unauthorized(<<"Missing authentication token">>)
    ELSE LET token_data == AuthDecodeToken(st, token, t)
             c == token_data.claims
         IN  IF ~token_data.ok
             THEN Unauthorized(<<"Invalid or expired token: ">> \o token_data.error)
             ELSE IF ~("type" \in DOMAIN c /\ c.type = "access")
             THEN Unauthorized(<<"Invalid token type. Access token required.">>)
             ELSE IF ~TruthyStr(c, "sub")
             THEN Unauthorized(<<"Invalid token: missing user ID">>)
             ELSE [status |-> HTTP_200_OK,
                   user |-> UserContext(
                       c.sub,
                       IF TruthyStr(c, "username") THEN c.username ELSE c.sub,
                       Get(c, "roles", <<>>),
                       c)]

\* faulty variant of GetCurrentUser: the token of an API key is refused
\* once the key is no longer stored
GetCurrentUser_ChecksKey(st, token, t) ==
    IF token.kind = "none"
    THEN Unauthorized(<<"Missing authentication token">>)
    ELSE LET token_data == AuthDecodeToken(st, token, t)
             c == token_data.claims
         IN  IF ~token_data.ok
             THEN Unauthorized(<<"Invalid or expired token: ">> \o token_data.error)
             ELSE IF ~("type" \in DOMAIN c /\ c.type = "access")
             THEN Unauthorized(<<"Invalid token type. Access token required.">>)
             ELSE IF ~TruthyStr(c, "sub")
             THEN Unauthorized(<<"Invalid token: missing user ID">>)
             ELSE IF "api_key_id" \in DOMAIN c /\ c.api_key_id \notin DOMAIN db.rows
             THEN Unauthorized(<<"API key revoked">>)
             ELSE [status |-> HTTP_200_OK,
                   user |-> UserContext(
                       c.sub,
                       IF TruthyStr(c, "username") THEN c.username ELSE c.sub,
                       IF TruthyList(c, "roles") THEN c.roles ELSE <<"submitter">>,
                       c)]

\* get_current_user(credentials) at UTC time t
GetCurrentUser(st, token, t) ==
    IF token.kind = "none"
    THEN Unauthorized(<<"Missing authentication token">>)
    ELSE LET token_data == AuthDecodeToken(st, token, t)
             c == token_data.claims
         IN  IF ~token_data.ok
             THEN Unauthorized(<<"Invalid or expired token: ">> \o token_data.error)
             ELSE IF ~("type" \in DOMAIN c /\ c.type = "access")
             THEN Unauthorized(<<"Invalid token type. Access token required.">>)
             ELSE IF ~TruthyStr(c, "sub")
             THEN Unauthorized(<<"Invalid token: missing user ID">>)
             ELSE [status |-> HTTP_200_OK,
                   user |-> UserContext(
                       c.sub,
                       IF TruthyStr(c, "username") THEN c.username ELSE c.sub,
                       IF TruthyList(c, "roles") THEN c.roles ELSE <<"submitter">>,
                       c)]

\* security = HTTPBearer(): with auto_error (the default) a request without
\* an Authorization header is answered by the framework before
\* get_current_user runs, with "Not authenticated" and the status of the
\* installed FastAPI release: 403, or 401 with a WWW-Authenticate header
NotAuthenticated(status) ==
    IF status = HTTP_401_UNAUTHORIZED
    THEN Unauthorized(<<"Not authenticated">>)
    ELSE [status |-> status, detail |-> <<"Not authenticated">>]

\* Depends(get_current_user) resolved for a request: Depends(security)
\* first, then get_current_user(credentials)
DependsGetCurrentUser(st, unauth, token, t) ==
    IF token.kind = "none" THEN NotAuthenticated(unauth)
    ELSE GetCurrentUser(st, token, t)

NoUser ==
    [returned |-> "None"]

\* faulty variant of GetOptionalUser: the HTTPException of get_current_user
\* is not caught
GetOptionalUser_Propagates(st, token, t) ==
    IF token.kind = "none" THEN NoUser
    ELSE LET r == GetCurrentUser(st, token, t)
         IN  IF r.status = HTTP_200_OK
             THEN [returned |-> "UserContext", user |-> r.user]
             ELSE [returned |-> "HTTPException", error |-> r]

\* get_optional_user(credentials) at UTC time t; HTTPBearer(auto_error=False)
\* hands over None when the request has no Authorization header
GetOptionalUser(st, token, t) ==
    IF token.kind = "none" THEN NoUser
    ELSE LET r == GetCurrentUser(st, token, t)
         IN  IF r.status = HTTP_200_OK
             THEN [returned |-> "UserContext", user |-> r.user]
             ELSE NoUser

Forbidden(detail) ==
    [status |-> HTTP_403_FORBIDDEN, detail |-> detail]

Granted(current_user) ==
    [status |-> HTTP_200_OK, user |-> current_user]

\* faulty variant of RequireRoleChecker: role names compared without regard to case
\* ("Admin" taken for "admin")
RequireRoleChecker_AnyCase(required_role, current_user) ==
    LET user_roles == ToSet(current_user.roles)
    IN  IF user_roles \cap {ROLE_ADMIN, "Admin"} # {} THEN Granted(current_user)
        ELSE IF required_role \notin user_roles
        THEN Forbidden([msg |-> "Access denied. Required role: ",
                        role |-> required_role])
        ELSE Granted(current_user)

\* require_role(required_role).role_checker(current_user)
RequireRoleChecker(required_role, current_user) ==
    LET user_roles == ToSet(current_user.roles)
    IN  IF ROLE_ADMIN \in user_roles THEN Granted(current_user)
        ELSE IF required_role \notin user_roles
        THEN Forbidden([msg |-> "Access denied. Required role: ",
                        role |-> required_role])
        ELSE Granted(current_user)

\* faulty variant of RequireAnyRoleChecker: all of the roles demanded instead of one
RequireAnyRoleChecker_Subset(required_roles, current_user) ==
    LET user_roles == ToSet(current_user.roles)
    IN  IF ROLE_ADMIN \in user_roles THEN Granted(current_user)
        ELSE IF ~(ToSet(required_roles) \subseteq user_roles)
        THEN Forbidden([msg |-> "Access denied. Required one of roles: ",
                        roles |-> required_roles])
        ELSE Granted(current_user)

\* require_any_role(*required_roles).role_checker(current_user)
RequireAnyRoleChecker(required_roles, current_user) ==
    LET user_roles == ToSet(current_user.roles)
    IN  IF ROLE_ADMIN \in user_roles THEN Granted(current_user)
        ELSE IF ToSet(required_roles) \cap user_roles = {}
        THEN Forbidden([msg |-> "Access denied. Required one of roles: ",
                        roles |-> required_roles])
        ELSE Granted(current_user)

\* faulty variant of RequireAllRolesChecker: no admin bypass
RequireAllRolesChecker_NoBypass(required_roles, current_user) ==
    LET user_roles == ToSet(current_user.roles)
    IN  IF ~(ToSet(required_roles) \subseteq user_roles)
        THEN Forbidden([msg |-> "Access denied. Required all roles: ",
                        roles |-> required_roles,
                        missing |-> ToSet(required_roles) \ user_roles])
        ELSE Granted(current_user)

\* faulty variant of RequireAllRolesChecker: every required role reported missing
RequireAllRolesChecker_ReportsAll(required_roles, current_user) ==
    LET user_roles == ToSet(current_user.roles)
    IN  IF ROLE_ADMIN \in user_roles THEN Granted(current_user)
        ELSE IF ~(ToSet(required_roles) \subseteq user_roles)
        THEN Forbidden([msg |-> "Access denied. Required all roles: ",
                        roles |-> required_roles,
                        missing |-> ToSet(required_roles)])
        ELSE Granted(current_user)

\* require_all_roles(*required_roles).role_checker(current_user)
RequireAllRolesChecker(required_roles, current_user) ==
    LET user_roles == ToSet(current_user.roles)
    IN  IF ROLE_ADMIN \in user_roles THEN Granted(current_user)
        ELSE IF ~(ToSet(required_roles) \subseteq user_roles)
        THEN Forbidden([msg |-> "Access denied. Required all roles: ",
                        roles |-> required_roles,
                        missing |-> ToSet(required_roles) \ user_roles])
        ELSE Granted(current_user)

\* an endpoint declared with Depends(require_role(required_role)):
\* Depends(get_current_user) runs first and its HTTPException ends the request
RequireRoleEndpoint(st, unauth, required_role, token, t) ==
    LET auth == DependsGetCurrentUser(st, unauth, token, t)
    IN  IF auth.status = HTTP_200_OK
        THEN RequireRoleChecker(required_role, auth.user)
        ELSE auth

\* an endpoint declared with Depends(require_any_role(*required_roles))
RequireAnyRoleEndpoint(st, unauth, required_roles, token, t) ==
    LET auth == DependsGetCurrentUser(st, unauth, token, t)
    IN  IF auth.status = HTTP_200_OK
        THEN RequireAnyRoleChecker(required_roles, auth.user)
        ELSE auth

\* an endpoint declared with Depends(require_all_roles(*required_roles))
RequireAllRolesEndpoint(st, unauth, required_roles, token, t) ==
    LET auth == DependsGetCurrentUser(st, unauth, token, t)
    IN  IF auth.status = HTTP_200_OK
        THEN RequireAllRolesChecker(required_roles, auth.user)
        ELSE auth

\* ------------------------------------------------- auth-service routers
HttpError(status, detail) ==
    [status |-> status, detail |-> detail]

\* faulty variant of TokenEndpoint: the token type not checked
TokenEndpoint_AnyType(st, zone, grant_type, refresh_token, jti, t) ==
    IF grant_type # "refresh_token"
    THEN HttpError(HTTP_400_BAD_REQUEST,
                   <<"Only 'refresh_token' grant type is supported">>)
    ELSE IF refresh_token.kind = "none"
    THEN HttpError(HTTP_400_BAD_REQUEST, <<"refresh_token is required">>)
    ELSE LET token_data == AuthDecodeToken(st, refresh_token, t)
             c == token_data.claims
             user_id == c.sub
             roles == Get(c, "roles", <<"submitter">>)
             username == Get(c, "username", user_id)
             scope == Get(c, "scope", "")
         IN  IF ~token_data.ok
             THEN HttpError(HTTP_500_INTERNAL_SERVER_ERROR,
                            <<"Token refresh failed: ">> \o token_data.error)
             ELSE IF ~TruthyStr(c, "sub")
             THEN HttpError(HTTP_401_UNAUTHORIZED, <<"No user ID in token">>)
             ELSE [status |-> HTTP_200_OK,
                   access_token |->
                       AuthCreateAccessToken(st, zone, user_id, username, roles, scope, t),
                   token_type |-> "Bearer",
                   expires_in |-> st.ACCESS_TOKEN_EXPIRY_MINUTES * SecondsPerMinute,
                   refresh_token |->
                       AuthCreateRefreshToken(st, zone, user_id, username, roles, scope, jti, t),
                   scope |-> scope]

\* POST /token (grant_type, refresh_token) at UTC time t; jti is the random
\* id of the new refresh token.  A JWTError from decode_token is not an
\* UnauthorizedError and is caught by `except Exception`.
TokenEndpoint(st, zone, grant_type, refresh_token, jti, t) ==
    IF grant_type # "refresh_token"
    THEN HttpError(HTTP_400_BAD_REQUEST,
                   <<"Only 'refresh_token' grant type is supported">>)
    ELSE IF refresh_token.kind = "none"
    THEN HttpError(HTTP_400_BAD_REQUEST, <<"refresh_token is required">>)
    ELSE LET token_data == AuthDecodeToken(st, refresh_token, t)
             c == token_data.claims
             user_id == c.sub
             roles == Get(c, "roles", <<"submitter">>)
             username == Get(c, "username", user_id)
             scope == Get(c, "scope", "")
         IN  IF ~token_data.ok
             THEN HttpError(HTTP_500_INTERNAL_SERVER_ERROR,
                            <<"Token refresh failed: ">> \o token_data.error)
             ELSE IF ~("type" \in DOMAIN c /\ c.type = "refresh")
             THEN HttpError(HTTP_401_UNAUTHORIZED, <<"Invalid token type">>)
             ELSE IF ~TruthyStr(c, "sub")
             THEN HttpError(HTTP_401_UNAUTHORIZED, <<"No user ID in token">>)
             ELSE [status |-> HTTP_200_OK,
                   access_token |->
                       AuthCreateAccessToken(st, zone, user_id, username, roles, scope, t),
                   token_type |-> "Bearer",
                   expires_in |-> st.ACCESS_TOKEN_EXPIRY_MINUTES * SecondsPerMinute,
                   refresh_token |->
                       AuthCreateRefreshToken(st, zone, user_id, username, roles, scope, jti, t),
                   scope |-> scope]

\* GET /callback at UTC time t.  provider is the outcome of the code
\* exchange ("ok", "no_token": a response without access_token, "error":
\* the exchange raised); user_info is the provider's userinfo response.
Callback(st, zone, provider, user_info, scope, jti, t) ==
    IF provider = "error"
    THEN HttpError(HTTP_500_INTERNAL_SERVER_ERROR, <<"Callback processing failed: ">>)
    ELSE IF provider = "no_token"
    THEN HttpError(HTTP_401_UNAUTHORIZED,
                   <<"No access token in OAuth provider response">>)
    ELSE IF ~TruthyStr(user_info, "sub")
    THEN HttpError(HTTP_401_UNAUTHORIZED,
                   <<"No user ID in OAuth provider response">>)
    ELSE LET user_id == user_info.sub
             username ==
                 IF TruthyStr(user_info, "username") THEN user_info.username
                 ELSE IF TruthyStr(user_info, "preferred_username")
                      THEN user_info.preferred_username
                 ELSE IF TruthyStr(user_info, "email") THEN user_info.email
                 ELSE user_id
             roles == IF TruthyList(user_info, "roles") THEN user_info.roles
                      ELSE <<"submitter">>
         IN  [status |-> HTTP_302_FOUND,
              access_token |->
                  AuthCreateAccessToken(st, zone, user_id, username, roles, scope, t),
              refresh_token |->
                  AuthCreateRefreshToken(st, zone, user_id, username, roles, scope, jti, t)]

\* ------------------------------------------------------ api-key-service
\* A datetime is its instant in whole seconds together with whether it
\* carries a tzinfo.  expires_at is a DateTime(timezone=True) column: what
\* the session hands back for it after refresh() or a select is aware or
\* naive as the database driver has it (db.tz_aware).
UtcNow(t) ==
    [t |-> t, aware |-> FALSE]

\* value of a DateTime(timezone=True) attribute once loaded from the table
Loaded(d, value) ==
    [value EXCEPT !.aware = d.tz_aware]

Returned(value) ==
    [raised |-> FALSE, value |-> value]

Raised(error) ==
    [raised |-> TRUE, error |-> error]

\* json.dumps(list) and json.loads(text)
JsonDumps(list) ==
    [json |-> list]

JsonLoads(text) ==
    text.json

KEY_PREFIX ==
    "ak_"

\* APIKeyService._generate_key: the prefix and the hex form of 32 random
\* bytes; n numbers the draws, no two of which give the same bytes
GenerateKey(n) ==
    [prefix |-> KEY_PREFIX, token_bytes |-> n]

\* the X-API-Key header is missing or empty
NoKey ==
    [prefix |-> ""]

\* APIKeyService._hash_key: bcrypt.hashpw(key, bcrypt.gensalt())
HashKey(key, salt) ==
    [bcrypt |-> key, salt |-> salt]

\* faulty variant of VerifyKey: only the prefix of the key is compared
VerifyKey_PrefixOnly(key, key_hash) ==
    /\ "bcrypt" \in DOMAIN key_hash
    /\ key_hash.bcrypt.prefix = key.prefix

\* APIKeyService._verify_key: bcrypt.checkpw(key, key_hash), and False when
\* checkpw raises because key_hash is not a bcrypt hash
VerifyKey(key, key_hash) ==
    /\ "bcrypt" \in DOMAIN key_hash
    /\ key_hash.bcrypt = key

\* the table right after the service has started
EmptyTable(tz_aware) ==
    [started |-> TRUE, tz_aware |-> tz_aware, rows |-> <<>>, next_id |-> 1]

\* faulty variant of CreateApiKey: the key itself stored in key_hash
CreateApiKey_StoresKey(d, a, t) ==
    LET id == d.next_id
        plain_key == GenerateKey(id)
        base == [id |-> id, key_hash |-> plain_key,
                 scopes |-> JsonDumps(a.scopes),
                 permissions |-> JsonDumps(a.permissions)]
        api_key ==
            IF "expires_in_days" \in DOMAIN a /\ a.expires_in_days # 0
            THEN Put(base, "expires_at",
                     Loaded(d, UtcNow(t + SecondsPerDay * a.expires_in_days)))
            ELSE base
    IN  [db |-> [d EXCEPT !.rows = Put(@, id, api_key), !.next_id = id + 1],
         api_key |-> api_key, plain_key |-> plain_key]

\* faulty variant of CreateApiKey: the lowest id that is free is taken, and
\* with it the key drawn for it before
CreateApiKey_ReusesId(d, a, t) ==
    LET free == (1..d.next_id) \ DOMAIN d.rows
        id == CHOOSE i \in free : \A j \in free : i <= j
        plain_key == GenerateKey(id)
        key_hash == HashKey(plain_key, id)
        base == [id |-> id, key_hash |-> key_hash,
                 scopes |-> JsonDumps(a.scopes),
                 permissions |-> JsonDumps(a.permissions)]
        api_key ==
            IF "expires_in_days" \in DOMAIN a /\ a.expires_in_days # 0
            THEN Put(base, "expires_at",
                     Loaded(d, UtcNow(t + SecondsPerDay * a.expires_in_days)))
            ELSE base
    IN  [db |-> [d EXCEPT !.rows = Put(@, id, api_key),
                          !.next_id = IF id = @ THEN @ + 1 ELSE @],
         api_key |-> api_key, plain_key |-> plain_key]

\* APIKeyService.create_api_key(scopes, permissions, expires_in_days) at UTC
\* time t.  `a` holds the arguments; expires_in_days is absent when None.
\* The id comes from the table's sequence; flush() and refresh() load the
\* row back into api_key.
CreateApiKey(d, a, t) ==
    LET id == d.next_id
        plain_key == GenerateKey(id)
        key_hash == HashKey(plain_key, id)
        base == [id |-> id, key_hash |-> key_hash,
                 scopes |-> JsonDumps(a.scopes),
                 permissions |-> JsonDumps(a.permissions)]
        api_key ==
            IF "expires_in_days" \in DOMAIN a /\ a.expires_in_days # 0
            THEN Put(base, "expires_at",
                     Loaded(d, UtcNow(t + SecondsPerDay * a.expires_in_days)))
            ELSE base
    IN  [db |-> [d EXCEPT !.rows = Put(@, id, api_key), !.next_id = id + 1],
         api_key |-> api_key, plain_key |-> plain_key]

\* APIKeyService.get_all_api_keys(skip=0, limit=100): the rows, in no
\* particular order here
GetAllApiKeys(d) ==
    { d.rows[id] : id \in DOMAIN d.rows }

\* APIKeyService.get_api_key_by_id(key_id)
GetApiKeyById(d, key_id) ==
    IF key_id \in DOMAIN d.rows
    THEN [found |-> TRUE, api_key |-> d.rows[key_id]]
    ELSE [found |-> FALSE]

\* APIKeyService.find_api_key_by_plain_key(plain_key): the first row whose
\* hash verifies
FindApiKeyByPlainKey(d, plain_key) ==
    LET matching == { id \in DOMAIN d.rows : VerifyKey(plain_key, d.rows[id].key_hash) }
    IN  IF matching = {} THEN [found |-> FALSE]
        ELSE [found |-> TRUE, api_key |-> d.rows[CHOOSE id \in matching : TRUE]]

\* faulty variant of RevokeApiKey: the row is kept
RevokeApiKey_KeepsRow(d, key_id) ==
    IF key_id \notin DOMAIN d.rows THEN [db |-> d, revoked |-> FALSE]
    ELSE [db |-> d, revoked |-> TRUE]

\* APIKeyService.revoke_api_key(key_id)
RevokeApiKey(d, key_id) ==
    IF key_id \notin DOMAIN d.rows THEN [db |-> d, revoked |-> FALSE]
    ELSE [db |-> [d EXCEPT !.rows = Without(@, key_id)], revoked |-> TRUE]

\* timedelta.days of (a - b): the floor of the difference in days
DaysBetween(a, b) ==
    (a.t - b.t) \div SecondsPerDay

Max(a, b) ==
    IF a >= b THEN a ELSE b

\* faulty variant of RotateApiKey: scopes and permissions are always those
\* of the old key
RotateApiKey_KeepsOld(d, key_id, a, t) ==
    LET old == GetApiKeyById(d, key_id)
        old_key == old.api_key
        carry == "expires_in_days" \notin DOMAIN a /\ "expires_at" \in DOMAIN old_key
        days_until_expiry == DaysBetween(old_key.expires_at, UtcNow(t))
        args0 == [scopes |-> JsonLoads(old_key.scopes),
                  permissions |-> JsonLoads(old_key.permissions)]
        args == IF "expires_in_days" \in DOMAIN a
                THEN Put(args0, "expires_in_days", a.expires_in_days)
                ELSE IF carry /\ days_until_expiry > 0
                THEN Put(args0, "expires_in_days", Max(1, days_until_expiry))
                ELSE args0
    IN  IF ~old.found THEN Returned([db |-> d, found |-> FALSE])
        ELSE IF carry /\ old_key.expires_at.aware
        THEN Raised("TypeError")
        ELSE LET created == CreateApiKey(RevokeApiKey(d, key_id).db, args, t)
             IN  Returned([db |-> created.db, found |-> TRUE,
                           api_key |-> created.api_key,
                           plain_key |-> created.plain_key])

\* APIKeyService.rotate_api_key(key_id, scopes, permissions,
\* expires_in_days) at UTC time t; arguments left at None are absent from
\* `a`.  Subtracting the naive utcnow() from an aware expires_at raises
\* TypeError.
RotateApiKey(d, key_id, a, t) ==
    LET old == GetApiKeyById(d, key_id)
        old_key == old.api_key
        scopes == IF "scopes" \in DOMAIN a THEN a.scopes
                  ELSE JsonLoads(old_key.scopes)
        permissions == IF "permissions" \in DOMAIN a THEN a.permissions
                       ELSE JsonLoads(old_key.permissions)
        carry == "expires_in_days" \notin DOMAIN a /\ "expires_at" \in DOMAIN old_key
        days_until_expiry == DaysBetween(old_key.expires_at, UtcNow(t))
        args0 == [scopes |-> scopes, permissions |-> permissions]
        args == IF "expires_in_days" \in DOMAIN a
                THEN Put(args0, "expires_in_days", a.expires_in_days)
                ELSE IF carry /\ days_until_expiry > 0
                THEN Put(args0, "expires_in_days", Max(1, days_until_expiry))
                ELSE args0
    IN  IF ~old.found THEN Returned([db |-> d, found |-> FALSE])
        ELSE IF carry /\ old_key.expires_at.aware
        THEN Raised("TypeError")
        ELSE LET created == CreateApiKey(RevokeApiKey(d, key_id).db, args, t)
             IN  Returned([db |-> created.db, found |-> TRUE,
                           api_key |-> created.api_key,
                           plain_key |-> created.plain_key])

\* APIKeyService.is_key_expired(api_key) at UTC time t: comparing the naive
\* utcnow() with an aware expires_at raises TypeError
IsKeyExpired(api_key, t) ==
    IF "expires_at" \notin DOMAIN api_key THEN Returned(FALSE)
    ELSE IF api_key.expires_at.aware THEN Raised("TypeError")
    ELSE Returned(t > api_key.expires_at.t)

\* api-key-service Settings(): the JWT part, with its defaults
KeySettings ==
    [JWT_SECRET_KEY |-> "secret-A", JWT_ALGORITHM |-> "HS256",
     JWT_ISSUER |-> "airlock-api-key-service",
     ACCESS_TOKEN_EXPIRY_MINUTES |-> 15, REFRESH_TOKEN_EXPIRY_DAYS |-> 7]

\* POST /api/v1/auth/token with the header X-API-Key at UTC time t
AuthenticateApiKey(d, st, x_api_key, t) ==
    IF x_api_key = NoKey
    THEN HttpError(HTTP_401_UNAUTHORIZED,
                   <<"API key is required. Provide it in X-API-Key header.">>)
    ELSE LET looked_up == FindApiKeyByPlainKey(d, x_api_key)
             api_key == looked_up.api_key
             expired == IsKeyExpired(api_key, t)
             scopes == JsonLoads(api_key.scopes)
             permissions == JsonLoads(api_key.permissions)
             jwt_config == JWTConfig(st.JWT_SECRET_KEY, st.JWT_ALGORITHM,
                                     st.JWT_ISSUER,
                                     st.ACCESS_TOKEN_EXPIRY_MINUTES,
                                     st.REFRESH_TOKEN_EXPIRY_DAYS)
         IN  IF ~looked_up.found
             THEN HttpError(HTTP_401_UNAUTHORIZED, <<"Invalid API key">>)
             ELSE IF expired.raised
             THEN HttpError(HTTP_500_INTERNAL_SERVER_ERROR,
                            <<"Failed to authenticate API key">>)
             ELSE IF expired.value
             THEN HttpError(HTTP_401_UNAUTHORIZED, <<"API key has expired">>)
             ELSE [status |-> HTTP_200_OK,
                   access_token |->
                       SharedCreateApiKeyAccessToken(
                           jwt_config, api_key.id, scopes, permissions, t),
                   refresh_token |->
                       SharedCreateApiKeyRefreshToken(
                           jwt_config, api_key.id, scopes, permissions, t),
                   token_type |-> "Bearer",
                   expires_in |-> st.ACCESS_TOKEN_EXPIRY_MINUTES * SecondsPerMinute]

\* APIKeyResponse(id, scopes, permissions, expires_at) of a row
APIKeyResponse(api_key) ==
    LET r == [id |-> api_key.id, scopes |-> JsonLoads(api_key.scopes),
              permissions |-> JsonLoads(api_key.permissions)]
    IN  IF "expires_at" \in DOMAIN api_key
        THEN Put(r, "expires_at", api_key.expires_at) ELSE r

\* APIKeyWithKeyResponse: APIKeyResponse and the plain text key
APIKeyWithKeyResponse(api_key, plain_key) ==
    Put(APIKeyResponse(api_key), "key", plain_key)

\* POST /api/v1/keys of an administrator
CreateKeyEndpoint(d, key_data, t) ==
    LET created == CreateApiKey(d, key_data, t)
    IN  [db |-> created.db,
         response |-> Put(APIKeyWithKeyResponse(created.api_key, created.plain_key),
                          "status", HTTP_201_CREATED)]

\* GET /api/v1/keys of an administrator
ListKeysEndpoint(d) ==
    [status |-> HTTP_200_OK,
     keys |-> { APIKeyResponse(k) : k \in GetAllApiKeys(d) },
     total |-> Cardinality(GetAllApiKeys(d)), skip |-> 0, limit |-> 100]

\* GET /api/v1/keys/{key_id} of an administrator
GetKeyEndpoint(d, key_id) ==
    LET got == GetApiKeyById(d, key_id)
    IN  IF ~got.found
        THEN HttpError(HTTP_404_NOT_FOUND, [msg |-> "API key not found", key_id |-> key_id])
        ELSE Put(APIKeyResponse(got.api_key), "status", HTTP_200_OK)

\* faulty variant of RevokeKeyEndpoint: 204 whether or not a key was revoked
RevokeKeyEndpoint_Quiet(d, key_id) ==
    [db |-> RevokeApiKey(d, key_id).db, response |-> [status |-> HTTP_204_NO_CONTENT]]

\* DELETE /api/v1/keys/{key_id} of an administrator
RevokeKeyEndpoint(d, key_id) ==
    LET done == RevokeApiKey(d, key_id)
    IN  IF ~done.revoked
        THEN [db |-> d,
              response |-> HttpError(HTTP_404_NOT_FOUND,
                                     [msg |-> "API key not found", key_id |-> key_id])]
        ELSE [db |-> done.db, response |-> [status |-> HTTP_204_NO_CONTENT]]

\* APIKeyService.rotate_api_key in a request in which create_api_key
\* raises (its flush fails) after revoke_api_key has flushed the delete:
\* the exception leaves the session holding the table without the old row
RotateApiKeyFailing(d, key_id, a, t) ==
    LET rotated == RotateApiKey(d, key_id, a, t)
    IN  IF rotated.raised \/ ~rotated.value.found THEN rotated
        ELSE Put(Raised("SQLAlchemyError"), "session", RevokeApiKey(d, key_id).db)

\* faulty variant of GetSession: the session is committed whether or not
\* the request raised
GetSession_CommitsAnyway(committed, pending, raised) ==
    pending

\* Database.get_session around a request: commit when the request returns,
\* roll back when it raises.  `committed` is the table before the request,
\* `pending` what the session has flushed.
GetSession(committed, pending, raised) ==
    IF raised THEN committed ELSE pending

\* POST /api/v1/keys/{key_id}/rotate of an administrator; create_fails
\* tells whether create_api_key raises in this request.  An exception of
\* the service is answered 500, an HTTPException like any other exception
\* reaches the session dependency.
RotateKeyEndpoint(d, key_id, rotate_data, t, create_fails) ==
    LET rotated == IF create_fails
                   THEN RotateApiKeyFailing(d, key_id, rotate_data, t)
                   ELSE RotateApiKey(d, key_id, rotate_data, t)
    IN  IF rotated.raised
        THEN [db |-> GetSession(d,
                                IF "session" \in DOMAIN rotated
                                THEN rotated.session ELSE d,
                                TRUE),
              response |-> HttpError(HTTP_500_INTERNAL_SERVER_ERROR,
                                     <<"Failed to rotate API key">>)]
        ELSE IF ~rotated.value.found
        THEN [db |-> GetSession(d, d, TRUE),
              response |-> HttpError(HTTP_404_NOT_FOUND,
                                     [msg |-> "API key not found", key_id |-> key_id])]
        ELSE [db |-> GetSession(d, rotated.value.db, FALSE),
              response |-> Put(APIKeyWithKeyResponse(rotated.value.api_key,
                                                     rotated.value.plain_key),
                               "status", HTTP_200_OK)]

\* ----------------------------------------------------------- environment
StartTime ==
    1000000

\* the zone of a process running in UTC, and a zone that moves its clocks
\* one hour forward shortly after the start of the run
UTCZone ==
    [std |-> 0, dst |-> 0, at |-> 0]

DSTZone ==
    [std |-> 3600, dst |-> 7200, at |-> StartTime + 30]

Zones ==
    {UTCZone, DSTZone}

Secrets ==
    {"secret-A", "secret-B"}

Issuers ==
    {"airlock-auth-service", "other-issuer"}

\* (access_token_expiry_minutes, refresh_token_expiry_days): the defaults,
\* zero and negative values (accepted unvalidated)
ExpiryChoices ==
    {<<15, 7>>, <<0, 0>>, <<-1, -1>>}

\* expiries of the auth-service deployments followed: the defaults and a
\* non-positive pair
SettingsExpiryChoices ==
    {<<15, 7>>, <<0, -1>>}

\* Settings(): the JWT part of the auth-service settings, read from the
\* environment once at start
Settings(minutes, days) ==
    [JWT_SECRET_KEY |-> "secret-A", JWT_ALGORITHM |-> "HS256",
     JWT_ISSUER |-> "airlock-auth-service",
     ACCESS_TOKEN_EXPIRY_MINUTES |-> minutes,
     REFRESH_TOKEN_EXPIRY_DAYS |-> days]

SettingsChoices ==
    { Settings(e[1], e[2]) : e \in SettingsExpiryChoices }

\* configurations callers of the shared library construct
Configs ==
    { JWTConfig(k, "HS256", i, e[1], e[2]) :
        k \in Secrets, i \in Issuers, e \in ExpiryChoices }

\* keyword arguments of the shared issuers for a user token: username and
\* roles passed or left at None, roles possibly the empty list
UserArgs ==
    { [subject |-> "u1"] } \cup
    { [subject |-> "u1", roles |-> r] :
        r \in {<<>>, <<"submitter">>, <<"reviewer", "admin">>} } \cup
    { [subject |-> "u1", username |-> "alice", roles |-> r] :
        r \in {<<>>, <<"submitter">>} }

\* userinfo responses of the OAuth provider
UserInfos ==
    { [email |-> "a@example.org"],
      [sub |-> "u1"],
      [sub |-> "u1", username |-> "alice", roles |-> <<"reviewer">>],
      [sub |-> "u1", preferred_username |-> "al", roles |-> <<>>] }

\* claim sets of hand-made tokens that authenticate when signed with the
\* service key: every roles list
UserClaims(t) ==
    { [sub |-> "u1", username |-> "alice", roles |-> r, exp |-> t + 60,
       iat |-> t, iss |-> "airlock-auth-service", type |-> "access"] :
        r \in RoleLists }

\* claim sets of hand-made tokens around one valid claim set: every type
\* (or none), issuer and expiry relative to t; sub or roles missing or empty
OddClaims(t) ==
    LET base == [sub |-> "u1", username |-> "alice", roles |-> <<"submitter">>,
                 exp |-> t + 1, iat |-> t - 1,
                 iss |-> "airlock-auth-service", type |-> "access"]
    IN  { [base EXCEPT !.type = ty, !.iss = i, !.exp = e] :
            ty \in {"access", "refresh"}, i \in Issuers, e \in {t - 1, t, t + 1} }
        \cup { Without([base EXCEPT !.iss = i], "type") : i \in Issuers }
        \cup { Without([base EXCEPT !.type = ty], "sub") : ty \in {"access", "refresh"} }
        \cup { [base EXCEPT !.type = ty, !.sub = ""] : ty \in {"access", "refresh"} }
        \cup { Without(Without([base EXCEPT !.type = ty], "roles"), "username") :
                 ty \in {"access", "refresh"} }
        \cup { [base EXCEPT !.roles = <<>>], [base EXCEPT !.iat = t + 1] }

\* -------------------------------------------------------------- states
Init ==
    /\ now = StartTime
    /\ tz \in Zones
    /\ settings \in SettingsChoices
    /\ bearer = NoToken
    /\ origin = [by |-> "nobody"]
    /\ result = [op |-> "start"]
    /\ ticks = 0
    /\ scheme_error \in {HTTP_401_UNAUTHORIZED, HTTP_403_FORBIDDEN}
    /\ db = [started |-> FALSE]
    /\ auth_code_store = [started |-> FALSE]

\* the instants the clock may jump to: the next second and the expiry of
\* the credential in hand
TickTargets ==
    {now + 1} \cup
    (IF bearer.kind = "jwt" /\ "exp" \in DOMAIN bearer.claims
     THEN {bearer.claims.exp}
     ELSE {})

\* credentials made outside the auth-service are made at the start of a
\* run; the run then follows their use as time passes
Fresh ==
    ticks = 0

\* the client makes one request at a time: an outstanding response is
\* read before anything else happens
Ready ==
    result.op \notin {"get_current_user", "require_role", "require_any_role",
                      "require_all_roles", "token", "callback", "decode_token",
                      "get_optional_user", "create_key", "list_keys", "get_key",
                      "revoke_key", "rotate_key", "authenticate_api_key",
                      "authorize", "oauth_token"}

\* the client has read the response
ReadResponse ==
    /\ ~Ready
    /\ result' = [op |-> "read"]
    /\ UNCHANGED <<now, tz, settings, bearer, origin, ticks, scheme_error, db, auth_code_store>>

\* time passes
Tick ==
    /\ Ready
    /\ ticks < MaxTicks
    /\ \E t \in TickTargets :
        /\ t > now
        /\ now' = t
    /\ ticks' = ticks + 1
    /\ result' = [op |-> "tick"]
    /\ UNCHANGED <<tz, settings, bearer, origin, scheme_error, db, auth_code_store>>

\* a caller of the shared library issues an access token
IssueSharedAccess ==
    /\ Ready
    /\ Fresh
    /\ \E config \in Configs, a \in UserArgs :
        /\ bearer' = SharedCreateAccessToken(config, a, now)
        /\ origin' = [by |-> "shared.create_access_token", config |-> config,
                      args |-> a, at |-> now]
    /\ result' = [op |-> "issue"]
    /\ UNCHANGED <<now, tz, settings, ticks, scheme_error, db, auth_code_store>>

\* a caller of the shared library issues a refresh token
IssueSharedRefresh ==
    /\ Ready
    /\ Fresh
    /\ \E config \in Configs, a \in UserArgs, include_jti \in BOOLEAN, jti \in JtiValues :
        /\ bearer' = SharedCreateRefreshToken(config, a, include_jti, jti, now)
        /\ origin' = [by |-> "shared.create_refresh_token", config |-> config,
                      args |-> a, at |-> now, include_jti |-> include_jti]
    /\ result' = [op |-> "issue"]
    /\ UNCHANGED <<now, tz, settings, ticks, scheme_error, db, auth_code_store>>

\* a caller of the shared library (the api-key-service) issues a token for
\* an API key
IssueApiKeyToken ==
    /\ Ready
    /\ Fresh
    /\ \E config \in Configs, scopes \in {<<"read-only">>, <<"admin">>},
          permissions \in {<<>>, <<"read">>} :
        \/ /\ bearer' = SharedCreateApiKeyAccessToken(
                             config, 1, scopes, permissions, now)
           /\ origin' = [by |-> "shared.create_api_key_access_token",
                         config |-> config, at |-> now]
        \/ /\ bearer' = SharedCreateApiKeyRefreshToken(
                             config, 1, scopes, permissions, now)
           /\ origin' = [by |-> "shared.create_api_key_refresh_token",
                         config |-> config, at |-> now]
    /\ result' = [op |-> "issue"]
    /\ UNCHANGED <<now, tz, settings, ticks, scheme_error, db, auth_code_store>>

\* somebody signs a claim set by hand (a test fixture, another service, an
\* attacker), or presents a string that is no JWT
Forge(claimSets) ==
    /\ Ready
    /\ Fresh
    /\ \/ \E c \in claimSets, k \in Secrets :
            bearer' = JwtEncode(c, k, "HS256")
       \/ \E c \in claimSets :
            bearer' = JwtEncode(c, settings.JWT_SECRET_KEY, "HS512")
       \/ bearer' = GarbageToken
       \/ bearer' = NoToken
    /\ origin' = [by |-> "hand"]
    /\ result' = [op |-> "forge"]
    /\ UNCHANGED <<now, tz, settings, ticks, scheme_error, db, auth_code_store>>

ForgeUser ==
    Forge(UserClaims(now))

ForgeOdd ==
    Forge(OddClaims(now))

\* GET /callback of the auth-service
DoCallback ==
    /\ Ready
    /\ \E provider \in {"ok", "no_token", "error"}, user_info \in UserInfos,
          scope \in {"", "openid"}, jti \in JtiValues :
        /\ provider # "ok" =>
              user_info = [sub |-> "u1"] /\ scope = "" /\ jti = "jti-a"
        /\ result' = [op |-> "callback", at |-> now,
                      response |-> Callback(settings, tz, provider, user_info,
                                            scope, jti, now)]
    /\ UNCHANGED <<now, tz, settings, bearer, origin, ticks, scheme_error, db, auth_code_store>>

\* the client keeps one of the tokens the auth-service just returned
TakeIssued ==
    /\ result.op \in {"callback", "token"}
    /\ result.response.status \in {HTTP_200_OK, HTTP_302_FOUND}
    /\ bearer' \in {result.response.access_token, result.response.refresh_token}
    /\ origin' = [by |-> "auth-service"]
    /\ result' = [op |-> "take"]
    /\ UNCHANGED <<now, tz, settings, ticks, scheme_error, db, auth_code_store>>

\* a request to an endpoint declared with Depends(get_current_user)
CallProtected ==
    /\ Ready
    /\ result' = [op |-> "get_current_user",
                  response |-> DependsGetCurrentUser(settings, scheme_error,
                                                     bearer, now)]
    /\ UNCHANGED <<now, tz, settings, bearer, origin, ticks, scheme_error, db, auth_code_store>>

\* a request to an endpoint declared with Depends(require_role(r))
CallRequireRole ==
    /\ Ready
    /\ \E r \in RequiredRoleNames :
        result' = [op |-> "require_role", required |-> r,
                   auth |-> DependsGetCurrentUser(settings, scheme_error,
                                                  bearer, now),
                   response |-> RequireRoleEndpoint(settings, scheme_error, r,
                                           bearer, now)]
    /\ UNCHANGED <<now, tz, settings, bearer, origin, ticks, scheme_error, db, auth_code_store>>

\* a request to an endpoint declared with Depends(require_any_role(*R))
CallRequireAnyRole ==
    /\ Ready
    /\ \E R \in RequiredTuples :
        result' = [op |-> "require_any_role", required |-> R,
                   auth |-> DependsGetCurrentUser(settings, scheme_error,
                                                  bearer, now),
                   response |-> RequireAnyRoleEndpoint(settings, scheme_error, R,
                                           bearer, now)]
    /\ UNCHANGED <<now, tz, settings, bearer, origin, ticks, scheme_error, db, auth_code_store>>

\* a request to an endpoint declared with Depends(require_all_roles(*R))
CallRequireAllRoles ==
    /\ Ready
    /\ \E R \in RequiredTuples :
        result' = [op |-> "require_all_roles", required |-> R,
                   auth |-> DependsGetCurrentUser(settings, scheme_error,
                                                  bearer, now),
                   response |-> RequireAllRolesEndpoint(settings, scheme_error, R,
                                           bearer, now)]
    /\ UNCHANGED <<now, tz, settings, bearer, origin, ticks, scheme_error, db, auth_code_store>>

\* a request to an endpoint declared with Depends(get_optional_user)
CallOptional ==
    /\ Ready
    /\ result' = [op |-> "get_optional_user",
                  strict |-> GetCurrentUser(settings, bearer, now),
                  response |-> GetOptionalUser(settings, bearer, now)]
    /\ UNCHANGED <<now, tz, settings, bearer, origin, ticks, scheme_error, db, auth_code_store>>

\* the random identifiers not drawn for the credential in hand: a new draw
\* of secrets.token_urlsafe(32) repeats no earlier one
FreshJtiValues ==
    JtiValues \ (IF bearer.kind = "jwt" /\ "jti" \in DOMAIN bearer.claims
                 THEN {bearer.claims.jti} ELSE {})

\* POST /token of the auth-service with the credential in hand, or without
CallToken ==
    /\ Ready
    /\ \E grant_type \in {"refresh_token", "password"},
          presented \in {bearer, NoToken}, jti \in FreshJtiValues :
        LET response == TokenEndpoint(settings, tz, grant_type, presented, jti, now)
        IN  /\ result' = [op |-> "token", grant_type |-> grant_type,
                          presented |-> presented, at |-> now,
                          response |-> response]
            \* the client notes that the token in hand has been exchanged,
            \* once or more than once
            /\ origin' = IF response.status = HTTP_200_OK
                         THEN Put(origin, "exchanged",
                                  IF "exchanged" \in DOMAIN origin
                                  THEN "again" ELSE "once")
                         ELSE origin
    /\ UNCHANGED <<now, tz, settings, bearer, ticks, scheme_error, db, auth_code_store>>

\* a service decodes the credential in hand with the shared decode_token
CallSharedDecode ==
    /\ Ready
    /\ \E config \in Configs :
        result' = [op |-> "decode_token", config |-> config,
                   response |-> SharedDecodeToken(bearer, config, TRUE, now)]
    /\ UNCHANGED <<now, tz, settings, bearer, origin, ticks, scheme_error, db, auth_code_store>>

\* the api-key-service after start-up: an empty table, and a database
\* driver that hands timestamps with time zone back aware (asyncpg) or
\* naive; the auth-service beside it runs with its defaults, which include
\* the JWT secret of the api-key-service
InitKeys ==
    /\ now = StartTime
    /\ tz = CHOOSE z \in Zones : TRUE
    /\ settings = CHOOSE st \in SettingsChoices :
                       /\ st.JWT_SECRET_KEY = KeySettings.JWT_SECRET_KEY
                       /\ st.ACCESS_TOKEN_EXPIRY_MINUTES
                            = KeySettings.ACCESS_TOKEN_EXPIRY_MINUTES
    /\ bearer = NoToken
    /\ origin = [by |-> "nobody"]
    /\ result = [op |-> "start"]
    /\ ticks = 0
    /\ scheme_error = HTTP_401_UNAUTHORIZED
    /\ db \in { EmptyTable(tz_aware) : tz_aware \in BOOLEAN }
    /\ auth_code_store = [started |-> FALSE]

\* the instants the clock may jump to while keys are followed: the next
\* second, and the expiry of a key and the second after it
KeyTickTargets ==
    {now + 1} \cup
    UNION { {db.rows[id].expires_at.t, db.rows[id].expires_at.t + 1} :
              id \in { i \in DOMAIN db.rows : "expires_at" \in DOMAIN db.rows[i] } }

\* time passes for the api-key-service
KeyTick ==
    /\ Ready
    /\ ticks < MaxTicks
    /\ \E t \in KeyTickTargets :
        /\ t > now
        /\ now' = t
    /\ ticks' = ticks + 1
    /\ result' = [op |-> "tick"]
    /\ UNCHANGED <<tz, settings, bearer, origin, scheme_error, db, auth_code_store>>

\* bodies of POST /api/v1/keys: expires_in_days is None or at least 1
KeyRequests ==
    { [scopes |-> <<"read-only">>, permissions |-> <<"read">>] } \cup
    { [scopes |-> <<"read-only">>, permissions |-> <<"read">>,
       expires_in_days |-> n] : n \in {1, 2} }

\* bodies of POST /api/v1/keys/{key_id}/rotate: every field optional
RotateRequests ==
    { <<>>, [expires_in_days |-> 1], [scopes |-> <<"admin">>],
      [permissions |-> <<>>] }

\* the keys a client may present: those generated so far and one never
\* generated, or none
PresentableKeys ==
    {NoKey} \cup { GenerateKey(n) : n \in 0..(db.next_id - 1) }

\* POST /api/v1/keys with one of the given bodies.  Keys are created at
\* the start of a run; the run then follows them as time passes and as
\* they are revoked and rotated
CreateKeyWith(requests) ==
    /\ Ready
    /\ Fresh
    /\ db.next_id <= MaxKeys
    /\ \E key_data \in requests :
        LET done == CreateKeyEndpoint(db, key_data, now)
        IN  /\ db' = done.db
            /\ result' = [op |-> "create_key", at |-> now, before |-> db,
                          response |-> done.response]
    /\ UNCHANGED <<now, tz, settings, bearer, origin, ticks, scheme_error, auth_code_store>>

ListKeys ==
    /\ Ready
    /\ result' = [op |-> "list_keys", response |-> ListKeysEndpoint(db)]
    /\ UNCHANGED <<now, tz, settings, bearer, origin, ticks, scheme_error, db, auth_code_store>>

GetKey ==
    /\ Ready
    /\ \E key_id \in 1..db.next_id :
        result' = [op |-> "get_key", key_id |-> key_id,
                   response |-> GetKeyEndpoint(db, key_id)]
    /\ UNCHANGED <<now, tz, settings, bearer, origin, ticks, scheme_error, db, auth_code_store>>

RevokeKey ==
    /\ Ready
    /\ \E key_id \in 1..db.next_id :
        LET done == RevokeKeyEndpoint(db, key_id)
        IN  /\ db' = done.db
            /\ result' = [op |-> "revoke_key", key_id |-> key_id, before |-> db,
                          response |-> done.response]
    /\ UNCHANGED <<now, tz, settings, bearer, origin, ticks, scheme_error, auth_code_store>>

\* POST /api/v1/keys/{key_id}/rotate with one of the given bodies
RotateKeyWith(requests) ==
    /\ Ready
    /\ db.next_id <= MaxKeys
    /\ \E key_id \in 1..db.next_id, rotate_data \in requests,
          create_fails \in BOOLEAN :
        LET done == RotateKeyEndpoint(db, key_id, rotate_data, now, create_fails)
        IN  /\ db' = done.db
            /\ result' = [op |-> "rotate_key", key_id |-> key_id,
                          rotate_data |-> rotate_data, at |-> now, before |-> db,
                          create_fails |-> create_fails,
                          response |-> done.response]
    /\ UNCHANGED <<now, tz, settings, bearer, origin, ticks, scheme_error, auth_code_store>>

CreateKey ==
    CreateKeyWith(KeyRequests)

RotateKey ==
    RotateKeyWith(RotateRequests)

\* keys without expiry, rotated as they are
CreatePlainKey ==
    CreateKeyWith({ [scopes |-> <<"read-only">>, permissions |-> <<"read">>] })

RotatePlainKey ==
    RotateKeyWith({ <<>> })

Authenticate ==
    /\ Ready
    /\ \E x_api_key \in PresentableKeys :
        result' = [op |-> "authenticate_api_key", x_api_key |-> x_api_key,
                   at |-> now,
                   response |-> AuthenticateApiKey(db, KeySettings, x_api_key, now)]
    /\ UNCHANGED <<now, tz, settings, bearer, origin, ticks, scheme_error, db, auth_code_store>>

\* the client keeps one of the tokens the api-key-service has just issued
TakeKeyToken ==
    /\ Fresh
    /\ bearer = NoToken
    /\ result.op = "authenticate_api_key"
    /\ result.response.status = HTTP_200_OK
    /\ bearer' \in {result.response.access_token, result.response.refresh_token}
    /\ origin' = [by |-> "api-key-service",
                  key_id |-> FindApiKeyByPlainKey(db, result.x_api_key).api_key.id,
                  at |-> now]
    /\ result' = [op |-> "take"]
    /\ UNCHANGED <<now, tz, settings, ticks, scheme_error, db, auth_code_store>>

\* the api-key-service: key management and key authentication
NextKeys ==
    \/ KeyTick
    \/ CreateKey
    \/ ListKeys
    \/ GetKey
    \/ RevokeKey
    \/ RotateKey
    \/ Authenticate
    \/ ReadResponse

SpecKeys ==
    InitKeys /\ [][NextKeys]_vars

\* tokens of the api-key-service used at the auth-service while the keys
\* they were minted from are revoked and rotated
NextStateless ==
    \/ Tick
    \/ CreatePlainKey
    \/ RevokeKey
    \/ RotatePlainKey
    \/ Authenticate
    \/ TakeKeyToken
    \/ CallProtected
    \/ CallToken
    \/ ReadResponse

SpecStateless ==
    InitKeys /\ [][NextStateless]_vars

\* role-protected endpoints of the auth-service
NextRbac ==
    \/ ForgeUser
    \/ IssueApiKeyToken
    \/ ForgeOdd
    \/ CallRequireRole
    \/ CallRequireAnyRole
    \/ CallRequireAllRoles
    \/ ReadResponse

SpecRbac ==
    Init /\ [][NextRbac]_vars

\* token issuance and validation
Next ==
    \/ Tick
    \/ IssueSharedAccess
    \/ IssueSharedRefresh
    \/ IssueApiKeyToken
    \/ ForgeOdd
    \/ DoCallback
    \/ TakeIssued
    \/ CallProtected
    \/ CallOptional
    \/ CallToken
    \/ CallSharedDecode
    \/ ReadResponse

Spec ==
    Init /\ [][Next]_vars

\* ------------------------------------------------------- role decisions
\* the request passed the authentication gate
Authenticated ==
    /\ result.op \in {"require_role", "require_any_role", "require_all_roles"}
    /\ result.auth.status = HTTP_200_OK

\* the roles of the principal the gate built
PrincipalRoles ==
    ToSet(result.auth.user.roles)

\* C1: admin bypass.  Whenever the principal's roles contain "admin",
\* require_role, require_any_role and require_all_roles grant access and
\* return the principal, whatever role or roles are required (roles the
\* principal does not hold and roles declared nowhere included).
C1_AdminBypass ==
    (Authenticated /\ ROLE_ADMIN \in PrincipalRoles) =>
        result.response = [status |-> HTTP_200_OK, user |-> result.auth.user]

\* an admin passes require_all_roles with a role it does not hold and that
\* is declared nowhere
C1_Witness ==
    /\ Authenticated
    /\ result.op = "require_all_roles"
    /\ PrincipalRoles = {ROLE_ADMIN}
    /\ ToSet(result.required) = {"auditor", ROLE_REVIEWER}
    /\ result.response.status = HTTP_200_OK

\* C2: require_role(r) grants access iff r is in the principal's roles or
\* "admin" is (exact string comparison); otherwise it answers 403 with a
\* detail that contains r.
C2_RequireRole ==
    (Authenticated /\ result.op = "require_role") =>
        IF result.required \in PrincipalRoles \/ ROLE_ADMIN \in PrincipalRoles
        THEN result.response = [status |-> HTTP_200_OK, user |-> result.auth.user]
        ELSE /\ result.response.status = HTTP_403_FORBIDDEN
             /\ result.response.detail.role = result.required

\* a principal holding only "Admin" is refused the role "admin"
C2_Witness ==
    /\ Authenticated
    /\ result.op = "require_role"
    /\ PrincipalRoles = {"Admin"}
    /\ result.required = ROLE_ADMIN
    /\ result.response.status = HTTP_403_FORBIDDEN

\* C3: require_all_roles(R) grants access iff the principal is admin or R
\* is a subset of its roles; on failure (403) the roles reported missing
\* are exactly R minus the principal's roles.
C3_RequireAllRoles ==
    (Authenticated /\ result.op = "require_all_roles") =>
        IF ROLE_ADMIN \in PrincipalRoles
           \/ ToSet(result.required) \subseteq PrincipalRoles
        THEN result.response = [status |-> HTTP_200_OK, user |-> result.auth.user]
        ELSE /\ result.response.status = HTTP_403_FORBIDDEN
             /\ result.response.detail.missing
                    = ToSet(result.required) \ PrincipalRoles

\* a principal holding one of two required roles is refused, and only the
\* other one is reported missing
C3_Witness ==
    /\ Authenticated
    /\ result.op = "require_all_roles"
    /\ PrincipalRoles = {ROLE_SUBMITTER}
    /\ ToSet(result.required) = {ROLE_SUBMITTER, ROLE_REVIEWER}
    /\ result.response.status = HTTP_403_FORBIDDEN
    /\ result.response.detail.missing = {ROLE_REVIEWER}

\* C4: require_any_role(R) grants access iff the principal is admin or R
\* and its roles intersect; otherwise it answers 403 and lists R.
C4_RequireAnyRole ==
    (Authenticated /\ result.op = "require_any_role") =>
        IF ROLE_ADMIN \in PrincipalRoles
           \/ ToSet(result.required) \cap PrincipalRoles # {}
        THEN result.response = [status |-> HTTP_200_OK, user |-> result.auth.user]
        ELSE /\ result.response.status = HTTP_403_FORBIDDEN
             /\ result.response.detail.roles = result.required

\* a principal holding one of two acceptable roles is granted access
C4_Witness ==
    /\ Authenticated
    /\ result.op = "require_any_role"
    /\ PrincipalRoles = {ROLE_REVIEWER}
    /\ ToSet(result.required) = {ROLE_REVIEWER, "auditor"}
    /\ result.response.status = HTTP_200_OK

\* ------------------------------------------------- tokens and the gate
\* tok carries claim k with value v
HasClaim(tok, k, v) ==
    tok.kind = "jwt" /\ k \in DOMAIN tok.claims /\ tok.claims[k] = v

\* tok is signed with the auth-service's key and algorithm
SignedByService(tok) ==
    tok.kind = "jwt" /\ tok.key = settings.JWT_SECRET_KEY
                     /\ tok.alg = settings.JWT_ALGORITHM

\* the clock is strictly before tok's exp
Unexpired(tok) ==
    tok.kind = "jwt" /\ "exp" \in DOMAIN tok.claims /\ now < tok.claims.exp

\* the clock has reached or passed tok's exp
AtOrPastExpiry(tok) ==
    tok.kind = "jwt" /\ "exp" \in DOMAIN tok.claims /\ now >= tok.claims.exp

\* the response carries newly issued tokens
IssuesTokens(response) ==
    "access_token" \in DOMAIN response \/ "refresh_token" \in DOMAIN response

\* C5: token type is enforced in both directions.  A validly signed,
\* unexpired refresh-typed token presented to get_current_user is answered
\* 401 and never becomes a principal; a validly signed, unexpired
\* access-typed token presented to the refresh grant of POST /token never
\* produces new tokens.
C5_TokenTypeEnforced ==
    /\ (/\ result.op = "get_current_user"
        /\ SignedByService(bearer) /\ Unexpired(bearer)
        /\ HasClaim(bearer, "type", "refresh"))
       => (/\ result.response.status = HTTP_401_UNAUTHORIZED
           /\ "user" \notin DOMAIN result.response)
    /\ (/\ result.op = "token"
        /\ result.grant_type = "refresh_token"
        /\ SignedByService(result.presented) /\ Unexpired(result.presented)
        /\ HasClaim(result.presented, "type", "access"))
       => (/\ result.response.status # HTTP_200_OK
           /\ ~IssuesTokens(result.response))

\* a refresh token the auth-service issued itself, still unexpired, is
\* refused by the gate for its type
C5_Witness ==
    /\ result.op = "get_current_user"
    /\ origin.by = "auth-service"
    /\ SignedByService(bearer) /\ Unexpired(bearer)
    /\ HasClaim(bearer, "type", "refresh")
    /\ result.response.status = HTTP_401_UNAUTHORIZED
    /\ result.response.detail = <<"Invalid token type. Access token required.">>

\* C6: decode-and-validate rejects every token whose iss differs from the
\* configured issuer, also when it is correctly signed and unexpired: the
\* shared decode_token fails, and get_current_user (through the
\* auth-service's decode_token) answers 401.
C6_IssuerEnforced ==
    /\ (/\ result.op = "decode_token"
        /\ bearer.kind = "jwt" /\ "iss" \in DOMAIN bearer.claims
        /\ bearer.claims.iss # result.config.issuer)
       => ~result.response.ok
    /\ (/\ result.op = "get_current_user"
        /\ bearer.kind = "jwt" /\ "iss" \in DOMAIN bearer.claims
        /\ bearer.claims.iss # settings.JWT_ISSUER)
       => result.response.status = HTTP_401_UNAUTHORIZED

\* C7: a correctly signed token is accepted only while the clock is
\* strictly before exp: decoded at a clock reading equal to exp or after
\* it, the shared decode_token fails and get_current_user (through the
\* auth-service's decode_token) answers 401.
C7_RejectedFromExpiryOn ==
    /\ (result.op = "decode_token" /\ AtOrPastExpiry(bearer))
       => ~result.response.ok
    /\ (result.op = "get_current_user" /\ AtOrPastExpiry(bearer))
       => result.response.status = HTTP_401_UNAUTHORIZED

\* C8: a token signed with one secret and decoded with a different one
\* fails: the shared decode_token returns no claims, and get_current_user
\* answers 401 for a token not signed with the service's secret.
C8_WrongSecretFails ==
    /\ (/\ result.op = "decode_token"
        /\ bearer.kind = "jwt"
        /\ bearer.key # result.config.secret_key)
       => (~result.response.ok /\ "claims" \notin DOMAIN result.response)
    /\ (/\ result.op = "get_current_user"
        /\ bearer.kind = "jwt"
        /\ bearer.key # settings.JWT_SECRET_KEY)
       => (/\ result.response.status = HTTP_401_UNAUTHORIZED
           /\ "user" \notin DOMAIN result.response)

\* an unexpired token issued by the shared library under one secret is
\* decoded under a configuration that differs in the secret only
C8_Witness ==
    /\ result.op = "decode_token"
    /\ origin.by = "shared.create_access_token"
    /\ origin.config.secret_key # result.config.secret_key
    /\ origin.config.issuer = result.config.issuer
    /\ Unexpired(bearer)
    /\ result.response = Err("InvalidSignatureError")

\* the credential in hand is an access token issued by the shared library
\* and the last operation decoded it with the configuration it was issued
\* with
DecodedWithIssuingConfig ==
    /\ result.op = "decode_token"
    /\ origin.by = "shared.create_access_token"
    /\ result.config = origin.config

Lifetime(tok) ==
    tok.claims.exp - tok.claims.iat

\* the auth-service answered with a pair of new tokens
AuthIssued ==
    /\ result.op \in {"callback", "token"}
    /\ IssuesTokens(result.response)

\* change of the process's local UTC offset between the wall-clock readings
\* t and t + delta
OffsetChange(t, delta) ==
    UtcOffset(tz, t + delta) - UtcOffset(tz, t)

\* C10 (as amended): tokens of the shared create_access_token have
\* exp = iat + 60 * access_token_expiry_minutes and those of the shared
\* create_refresh_token exp = iat + 86400 * refresh_token_expiry_days, so
\* exp > iat exactly when the configured expiry is positive (zero and
\* negative expiries are accepted).  For the auth-service versions exp - iat
\* is the same configured lifetime minus the change of the process's local
\* UTC offset between the issue and the expiry wall-clock readings (no
\* change in a zone with a fixed offset).
C10_Lifetime ==
    /\ origin.by = "shared.create_access_token" =>
        /\ Lifetime(bearer)
             = SecondsPerMinute * origin.config.access_token_expiry_minutes
        /\ (bearer.claims.exp > bearer.claims.iat)
             <=> (origin.config.access_token_expiry_minutes > 0)
    /\ origin.by = "shared.create_refresh_token" =>
        /\ Lifetime(bearer)
             = SecondsPerDay * origin.config.refresh_token_expiry_days
        /\ (bearer.claims.exp > bearer.claims.iat)
             <=> (origin.config.refresh_token_expiry_days > 0)
    /\ AuthIssued =>
        LET minutes == SecondsPerMinute * settings.ACCESS_TOKEN_EXPIRY_MINUTES
            days == SecondsPerDay * settings.REFRESH_TOKEN_EXPIRY_DAYS
        IN  /\ Lifetime(result.response.access_token)
                 = minutes - OffsetChange(result.at, minutes)
            /\ Lifetime(result.response.refresh_token)
                 = days - OffsetChange(result.at, days)

\* the credential in hand was issued by the shared library under a
\* negative expiry and has exp before iat; the auth-service, in a zone whose
\* offset changes within the lifetime of its access tokens, then issues an
\* access token with exp before iat although its configured expiry is
\* positive
C10_Witness ==
    /\ origin.by = "shared.create_access_token"
    /\ origin.config.access_token_expiry_minutes < 0
    /\ Lifetime(bearer) = -SecondsPerMinute
    /\ AuthIssued
    /\ settings.ACCESS_TOKEN_EXPIRY_MINUTES > 0
    /\ OffsetChange(result.at, SecondsPerMinute * settings.ACCESS_TOKEN_EXPIRY_MINUTES) # 0
    /\ Lifetime(result.response.access_token) < 0

\* C10 (as claimed): every token issued by create_access_token or
\* create_refresh_token (auth-service and shared versions), under every
\* accepted configuration, has exp > iat, with exp = iat + 60 *
\* access_token_expiry_minutes for access tokens and exp = iat + 86400 *
\* refresh_token_expiry_days for refresh tokens.
C10_ExpAfterIat ==
    /\ origin.by = "shared.create_access_token" =>
        /\ bearer.claims.exp > bearer.claims.iat
        /\ Lifetime(bearer)
             = SecondsPerMinute * origin.config.access_token_expiry_minutes
    /\ origin.by = "shared.create_refresh_token" =>
        /\ bearer.claims.exp > bearer.claims.iat
        /\ Lifetime(bearer)
             = SecondsPerDay * origin.config.refresh_token_expiry_days
    /\ AuthIssued =>
        /\ Lifetime(result.response.access_token) > 0
        /\ Lifetime(result.response.access_token)
             = SecondsPerMinute * settings.ACCESS_TOKEN_EXPIRY_MINUTES
        /\ Lifetime(result.response.refresh_token) > 0
        /\ Lifetime(result.response.refresh_token)
             = SecondsPerDay * settings.REFRESH_TOKEN_EXPIRY_DAYS

\* ------------------------------------------------------------ token ids
\* tok is refresh-typed and carries a token id
RefreshWithJti(tok) ==
    HasClaim(tok, "type", "refresh") /\ "jti" \in DOMAIN tok.claims

\* C11: every refresh token the system issues, for a user (auth-service,
\* shared create_refresh_token with its default include_jti) or for an API
\* key (create_api_key_refresh_token), has type = "refresh" and carries a
\* jti claim, and no access token it issues carries a jti claim.
C11_RefreshTokensCarryJti ==
    /\ (origin.by = "shared.create_refresh_token" /\ origin.include_jti)
          => RefreshWithJti(bearer)
    /\ origin.by = "shared.create_api_key_refresh_token"
          => RefreshWithJti(bearer)
    /\ origin.by \in {"shared.create_access_token",
                      "shared.create_api_key_access_token"}
          => (HasClaim(bearer, "type", "access")
              /\ "jti" \notin DOMAIN bearer.claims)
    /\ AuthIssued =>
          /\ RefreshWithJti(result.response.refresh_token)
          /\ HasClaim(result.response.access_token, "type", "access")
          /\ "jti" \notin DOMAIN result.response.access_token.claims

\* --------------------------------------------- principals and rejections
\* tok passes every check of the gate: signed with the service's key,
\* unexpired, access-typed, with a subject
ValidAccessToken(tok) ==
    /\ SignedByService(tok) /\ Unexpired(tok)
    /\ HasClaim(tok, "type", "access")
    /\ TruthyStr(tok.claims, "sub")

\* C12: default role.  For every valid access token whose roles claim is
\* absent or the empty list, get_current_user returns a principal whose
\* roles are exactly ["submitter"]; for every valid access token with a
\* non-empty roles claim the principal's roles equal the claim.
C12_DefaultRole ==
    (result.op = "get_current_user" /\ ValidAccessToken(bearer)) =>
        /\ result.response.status = HTTP_200_OK
        /\ result.response.user.roles
             = IF TruthyList(bearer.claims, "roles") THEN bearer.claims.roles
               ELSE <<ROLE_SUBMITTER>>

\* a valid access token without a roles claim authenticates as a submitter
C12_Witness ==
    /\ result.op = "get_current_user"
    /\ ValidAccessToken(bearer)
    /\ "roles" \notin DOMAIN bearer.claims
    /\ result.response.status = HTTP_200_OK
    /\ result.response.user.roles = <<ROLE_SUBMITTER>>

\* d holds a non-empty value under k
Populated(d, k) ==
    k \in DOMAIN d /\ d[k] # <<>>

\* C13: the principal the gate builds carries roles, and neither scopes nor
\* permissions, unless the token has auth_type = "api_key"; then it carries
\* scopes and permissions and no roles.  Exactly one of the two is
\* populated for every principal built from a valid access token.
C13_PrincipalKind ==
    (result.op = "get_current_user" /\ ValidAccessToken(bearer)) =>
        LET user == result.response.user
        IN  IF HasClaim(bearer, "auth_type", "api_key")
            THEN /\ "scopes" \in DOMAIN user /\ "permissions" \in DOMAIN user
                 /\ ~Populated(user, "roles")
            ELSE /\ Populated(user, "roles")
                 /\ ~Populated(user, "scopes")
                 /\ ~Populated(user, "permissions")

\* C14: get_optional_user never fails.  It returns no principal when the
\* request carries no credential, no principal for every token
\* get_current_user rejects, and for a token get_current_user accepts the
\* principal get_current_user returns.
C14_OptionalNeverFails ==
    result.op = "get_optional_user" =>
        /\ result.response.returned \in {"None", "UserContext"}
        /\ bearer.kind = "none" => result.response = NoUser
        /\ result.strict.status # HTTP_200_OK => result.response = NoUser
        /\ result.strict.status = HTTP_200_OK =>
              result.response = [returned |-> "UserContext",
                                 user |-> result.strict.user]

\* a token signed by the service but past its expiry yields no principal
\* and no error in optional mode
C14_Witness ==
    /\ result.op = "get_optional_user"
    /\ SignedByService(bearer)
    /\ HasClaim(bearer, "type", "access")
    /\ "exp" \in DOMAIN bearer.claims /\ bearer.claims.exp < now
    /\ result.strict.status = HTTP_401_UNAUTHORIZED
    /\ result.response = NoUser

\* the request went to a role-protected endpoint
RoleProtected ==
    result.op \in {"require_role", "require_any_role", "require_all_roles"}

\* C15: on a role-protected endpoint every credential failure (no
\* credential, an undecodable, forged or expired token, a wrong token type,
\* a missing subject) is answered 401 with the header WWW-Authenticate:
\* Bearer, and 403 is answered only when authentication succeeded and the
\* role check failed.
C15_CredentialVsRoleFailure ==
    RoleProtected =>
        /\ result.auth.status # HTTP_200_OK =>
              /\ result.response.status = HTTP_401_UNAUTHORIZED
              /\ "headers" \in DOMAIN result.response
              /\ result.response.headers.WWW_Authenticate = "Bearer"
        /\ result.response.status = HTTP_403_FORBIDDEN =>
              result.auth.status = HTTP_200_OK
        /\ (result.auth.status = HTTP_200_OK
             /\ result.response.status # HTTP_200_OK) =>
              result.response.status = HTTP_403_FORBIDDEN

\* the answer of the gate to a token of the service that has expired
ExpiredRejection ==
    GetCurrentUser(
        settings,
        JwtEncode([sub |-> "u1", type |-> "access", exp |-> now - 1],
                  settings.JWT_SECRET_KEY, settings.JWT_ALGORITHM),
        now)

\* C16: the 401 of the gate does not tell why decoding failed.  Every
\* bearer token the decode rejects (expired, signed with another key or
\* algorithm, or malformed) gets the status, headers and detail an expired
\* token gets.
C16_UniformRejection ==
    (/\ result.op = "get_current_user"
     /\ bearer.kind \in {"jwt", "garbage"}
     /\ ~AuthDecodeToken(settings, bearer, now).ok)
    => result.response = ExpiredRejection

\* ------------------------------------------------------------ key rotation
\* a rotation of an existing key, answered by the rotate endpoint
RotatedExisting ==
    /\ result.op = "rotate_key"
    /\ result.key_id \in DOMAIN result.before.rows

\* C17: a rotation that supplies no expiry carries the expiry of the old
\* key forward, here where timestamps load naive and nothing fails: an old key without
\* expiry gives a new key without expiry; otherwise the new key expires
\* floor(remaining days) days after the rotation, at least one day, and so
\* has an expiry even when less than a day remained or the old key had
\* expired.
C17_RotationCarriesExpiry ==
    (/\ RotatedExisting
     /\ ~result.create_fails
     /\ "expires_in_days" \notin DOMAIN result.rotate_data
     /\ ~result.before.tz_aware)
    => LET old_key == result.before.rows[result.key_id]
           new_key == result.response
           remaining == DaysBetween(old_key.expires_at, UtcNow(result.at))
       IN  /\ new_key.status = HTTP_200_OK
           /\ IF "expires_at" \notin DOMAIN old_key
              THEN "expires_at" \notin DOMAIN new_key
              ELSE /\ "expires_at" \in DOMAIN new_key
                   /\ new_key.expires_at.t =
                         result.at + SecondsPerDay * Max(1, remaining)

\* the plaintexts that verified against the hash of the rotated key
OldPlaintexts ==
    { k \in PresentableKeys :
        VerifyKey(k, result.before.rows[result.key_id].key_hash) }

CorrectSecret ==
    /\ result.op = "authenticate_api_key"
    /\ FindApiKeyByPlainKey(db, result.x_api_key).found

\* C19: authenticating with the correct secret of a stored key succeeds
\* exactly when the key has not expired.  A key without expires_at never
\* expires; another is expired iff now > expires_at.  For an expired key
\* the lookup finds the record and the endpoint answers 401 "API key has
\* expired" and issues no tokens.
C19_ExpiryDecidesAuthentication ==
    CorrectSecret =>
        LET api_key == FindApiKeyByPlainKey(db, result.x_api_key).api_key
            expired == /\ "expires_at" \in DOMAIN api_key
                       /\ result.at > api_key.expires_at.t
        IN  IF expired
            THEN result.response =
                     HttpError(HTTP_401_UNAUTHORIZED, <<"API key has expired">>)
            ELSE /\ result.response.status = HTTP_200_OK
                 /\ "access_token" \in DOMAIN result.response
                 /\ "refresh_token" \in DOMAIN result.response

\* the same where timestamps load naive
ExpiryDecidesWhereNaive ==
    ~db.tz_aware => C19_ExpiryDecidesAuthentication

\* ----------------------------------------------------- plaintext secrets
\* the plaintext keys generated so far
Plaintexts ==
    { GenerateKey(n) : n \in 1..(db.next_id - 1) }

\* the record r carries a plaintext key in one of its fields (id, status
\* and the like, which are numbers and texts, are not keys)
CarriesPlaintext(r) ==
    \E f \in DOMAIN r \cap {"key", "key_hash", "plain_key", "api_key", "x_api_key"} :
        r[f] \in Plaintexts

\* the response carries the plaintext of the key the call has just
\* generated, and of no key stored before the call
CarriesOnlyNewPlaintext ==
    LET new_key == result.response
    IN  "key" \in DOMAIN new_key =>
          /\ new_key.id \notin DOMAIN result.before.rows
          /\ VerifyKey(new_key.key, db.rows[new_key.id].key_hash)
          /\ \A id \in DOMAIN result.before.rows :
                ~VerifyKey(new_key.key, result.before.rows[id].key_hash)

\* C20: in every reachable state the store holds hashes of the secrets
\* and no plaintext; a plaintext appears only in the response of the
\* create or rotate call that generated it; no list, get, revoke or
\* authenticate response contains one.
C20_PlaintextOnlyOnce ==
    /\ \A id \in DOMAIN db.rows :
          /\ ~CarriesPlaintext(db.rows[id])
          /\ \E k \in Plaintexts : VerifyKey(k, db.rows[id].key_hash)
    /\ result.op \in {"create_key", "rotate_key"} => CarriesOnlyNewPlaintext
    /\ result.op \in {"get_key", "revoke_key", "authenticate_api_key"} =>
          ~CarriesPlaintext(result.response)
    /\ result.op = "list_keys" =>
          /\ ~CarriesPlaintext(result.response)
          /\ \A k \in result.response.keys : ~CarriesPlaintext(k)
    /\ result.op = "authenticate_api_key" /\ result.response.status = HTTP_200_OK =>
          /\ ~CarriesPlaintext(result.response.access_token.claims)
          /\ ~CarriesPlaintext(result.response.refresh_token.claims)

\* a key made by a rotation is stored and then read back by id
C20_Witness ==
    /\ result.op = "get_key"
    /\ result.response.status = HTTP_200_OK
    /\ result.key_id > 1
    /\ DOMAIN db.rows = {result.key_id}
    /\ VerifyKey(GenerateKey(result.key_id), db.rows[result.key_id].key_hash)

\* ------------------------------------------------------------- revocation
\* the ids handed out so far whose record is no longer stored
GoneIds ==
    (1..(db.next_id - 1)) \ DOMAIN db.rows

\* C21: once revoke_api_key(id) has returned true, get_api_key_by_id(id)
\* finds nothing in every later state, the plaintext of the key is refused
\* with 401 as an unknown key, and another revoke of id returns false.
\* In steps: a revoke answered 204 leaves the id out of the table, and an
\* id that is out of the table stays out, with its plaintext refused.
C21_RevokedStaysRevoked ==
    [][ /\ (result'.op = "revoke_key"
            /\ result'.response.status = HTTP_204_NO_CONTENT) =>
              /\ result'.key_id \in DOMAIN db.rows
              /\ result'.key_id \in GoneIds'
              /\ \A k \in PresentableKeys :
                    VerifyKey(k, db.rows[result'.key_id].key_hash) =>
                      AuthenticateApiKey(db', KeySettings, k, now') =
                        HttpError(HTTP_401_UNAUTHORIZED, <<"Invalid API key">>)
        /\ \A id \in GoneIds :
              /\ id \in GoneIds'
              /\ ~GetApiKeyById(db', id).found
              /\ ~RevokeApiKey(db', id).revoked
              /\ AuthenticateApiKey(db', KeySettings, GenerateKey(id), now') =
                    HttpError(HTTP_401_UNAUTHORIZED, <<"Invalid API key">>)
      ]_vars

\* a key is revoked a second time, after another key was created, and the
\* second revoke is answered not found
C21_Witness ==
    /\ result.op = "revoke_key"
    /\ result.key_id \in GoneIds
    /\ result.key_id \notin DOMAIN result.before.rows
    /\ DOMAIN db.rows # {}
    /\ result.key_id < db.next_id - 1
    /\ result.response.status = HTTP_404_NOT_FOUND

\* ------------------------------------------------------ lookup by secret
\* the ids of the rows whose stored hash verifies the candidate
Matching(candidate) ==
    { id \in DOMAIN db.rows : VerifyKey(candidate, db.rows[id].key_hash) }

\* C22: lookup by secret is exact.  In every store state
\* find_api_key_by_plain_key(candidate) returns a stored record whose hash
\* verifies the candidate when there is one and nothing otherwise; a
\* secret verifies against the hash made from it and against no hash made
\* from another secret; the plaintext returned at creation finds exactly
\* the record created with it.
C22_LookupExact ==
    /\ \A candidate \in PresentableKeys :
          LET looked_up == FindApiKeyByPlainKey(db, candidate)
          IN  IF Matching(candidate) = {}
              THEN ~looked_up.found
              ELSE /\ looked_up.found
                   /\ looked_up.api_key.id \in Matching(candidate)
                   /\ looked_up.api_key = db.rows[looked_up.api_key.id]
    /\ \A secret \in PresentableKeys, other \in PresentableKeys,
          salt \in 1..db.next_id :
          VerifyKey(secret, HashKey(other, salt)) <=> (secret = other)
    /\ result.op = "create_key" =>
          /\ Matching(result.response.key) = {result.response.id}
          /\ FindApiKeyByPlainKey(db, result.response.key).api_key
               = db.rows[result.response.id]

\* a third key is created beside two stored ones and its plaintext finds
\* its own record
C22_Witness ==
    /\ result.op = "create_key"
    /\ Cardinality(DOMAIN db.rows) = 3
    /\ result.response.id = 3
    /\ FindApiKeyByPlainKey(db, result.response.key).api_key.id = 3

\* ------------------------------------------- rotation: scopes, permissions
\* C23: rotation reuses the scopes and the permissions of the old record
\* when the request supplies none, and uses the supplied ones otherwise:
\* the new record's scopes (permissions) are the request's if given, else
\* the old record's.
C23_RotationReusesScopes ==
    (RotatedExisting /\ result.response.status = HTTP_200_OK) =>
        LET old_key == result.before.rows[result.key_id]
            new_key == db.rows[result.response.id]
            rotate_data == result.rotate_data
            scopes == IF "scopes" \in DOMAIN rotate_data
                      THEN rotate_data.scopes
                      ELSE JsonLoads(old_key.scopes)
            permissions == IF "permissions" \in DOMAIN rotate_data
                           THEN rotate_data.permissions
                           ELSE JsonLoads(old_key.permissions)
        IN  /\ JsonLoads(new_key.scopes) = scopes
            /\ JsonLoads(new_key.permissions) = permissions
            /\ result.response.scopes = scopes
            /\ result.response.permissions = permissions

\* a key whose scopes a rotation has replaced is rotated again without
\* scopes and keeps the replaced ones
C23_Witness ==
    /\ RotatedExisting
    /\ result.response.status = HTTP_200_OK
    /\ "scopes" \notin DOMAIN result.rotate_data
    /\ result.before.rows[result.key_id].scopes = JsonDumps(<<"admin">>)
    /\ result.response.scopes = <<"admin">>

\* ---------------------------------------------------------- unknown ids
\* C25: revoke, rotate and get on an id that is not in the store report
\* not found (the service returns False, (None, None) and None, the
\* endpoints answer 404) and leave the store as it was: no record is
\* created, deleted or modified.
C25_UnknownIdLeavesStore ==
    [][ (/\ result'.op \in {"revoke_key", "rotate_key", "get_key"}
         /\ result'.key_id \notin DOMAIN db.rows)
        => /\ db' = db
           /\ result'.response.status = HTTP_404_NOT_FOUND
           /\ RevokeApiKey(db, result'.key_id) = [db |-> db, revoked |-> FALSE]
           /\ \A a \in RotateRequests :
                 RotateApiKey(db, result'.key_id, a, now)
                   = Returned([db |-> db, found |-> FALSE])
           /\ ~GetApiKeyById(db, result'.key_id).found
      ]_vars

\* a rotation of an id that was revoked, beside a stored key, is answered
\* 404
C25_Witness ==
    /\ result.op = "rotate_key"
    /\ result.key_id \notin DOMAIN result.before.rows
    /\ result.key_id < db.next_id
    /\ DOMAIN db.rows # {}
    /\ db = result.before
    /\ result.response.status = HTTP_404_NOT_FOUND

\* ---------------------------------------------------- rotation, atomicity
\* the plaintexts that verify against a row of the table before the request
StoredPlaintextsBefore ==
    { k \in PresentableKeys :
        \E id \in DOMAIN result.before.rows :
            VerifyKey(k, result.before.rows[id].key_hash) }

\* C28: rotation is all or nothing within a request.  After any rotate
\* request, one in which creating the replacement fails included, either
\* the old record is gone and exactly one new record exists, or the store
\* is unchanged and the old key authenticates as before; no request ends
\* with the old record deleted and no replacement stored.
C28_RotationAllOrNothing ==
    result.op = "rotate_key" =>
        LET before == result.before
            replaced ==
                /\ result.response.status = HTTP_200_OK
                /\ DOMAIN before.rows \ DOMAIN db.rows = {result.key_id}
                /\ DOMAIN db.rows \ DOMAIN before.rows = {result.response.id}
            untouched ==
                /\ result.response.status # HTTP_200_OK
                /\ db = before
                /\ \A k \in StoredPlaintextsBefore :
                      AuthenticateApiKey(db, KeySettings, k, now)
                        = AuthenticateApiKey(before, KeySettings, k, result.at)
        IN  /\ replaced \/ untouched
            /\ Cardinality(DOMAIN db.rows) = Cardinality(DOMAIN before.rows)

\* the creation of the replacement fails in the rotation of a stored key
\* without expiry: the request is answered 500 and the key is still there
C28_Witness ==
    /\ RotatedExisting
    /\ result.create_fails
    /\ "expires_at" \notin DOMAIN result.before.rows[result.key_id]
    /\ result.response.status = HTTP_500_INTERNAL_SERVER_ERROR
    /\ result.key_id \in DOMAIN db.rows
    /\ AuthenticateApiKey(db, KeySettings, GenerateKey(result.key_id), now).status
         = HTTP_200_OK

\* ---------------------------------------------------------- token refresh
\* C24: a refresh request (grant_type = refresh_token) whose token is
\* malformed, forged or expired is rejected as an authentication failure,
\* with status 401 and without tokens; a request with another grant_type
\* or without a refresh_token is rejected with 400.
C24_RefreshRejections ==
    result.op = "token" =>
        /\ (result.grant_type # "refresh_token" \/ result.presented.kind = "none")
              => result.response.status = HTTP_400_BAD_REQUEST
        /\ (/\ result.grant_type = "refresh_token"
             /\ result.presented.kind \in {"jwt", "garbage"}
             /\ ~AuthDecodeToken(settings, result.presented, result.at).ok)
              => /\ result.response.status = HTTP_401_UNAUTHORIZED
                 /\ ~IssuesTokens(result.response)

\* the refresh request was answered with new tokens
Refreshed ==
    /\ result.op = "token"
    /\ result.response.status = HTTP_200_OK

\* the claim named k is the same in both claim sets, or in neither
SameClaim(a, b, k) ==
    IF k \in DOMAIN a THEN k \in DOMAIN b /\ b[k] = a[k]
    ELSE k \notin DOMAIN b

\* C26 as stated: a successful refresh issues an access token and a new
\* refresh token whose sub, username, roles and scope equal those of the
\* refresh token presented, and the new refresh token differs from the
\* one presented.  Stated for refresh tokens presented before their exp.
C26_RefreshKeepsClaims ==
    (Refreshed /\ result.at < result.presented.claims.exp) =>
        LET old == result.presented.claims
        IN  /\ \A tok \in {result.response.access_token, result.response.refresh_token} :
                  \A k \in {"sub", "username", "roles", "scope"} :
                      SameClaim(old, tok.claims, k)
            /\ result.response.refresh_token # result.presented

\* C26, amended: the new tokens carry the sub of the refresh token
\* presented, its username and roles when it has them and otherwise the
\* sub as username and ["submitter"] as roles, and its scope when it has a
\* non-empty one and otherwise no scope; the access token has type access,
\* the new refresh token type refresh and a jti, and the new refresh token
\* differs from the one presented.
C26_RefreshKeepsClaimsOrDefaults ==
    Refreshed =>
        LET old == result.presented.claims
            access == result.response.access_token.claims
            refresh == result.response.refresh_token.claims
        IN  /\ \A new \in {access, refresh} :
                  /\ new.sub = old.sub
                  /\ new.username = Get(old, "username", old.sub)
                  /\ new.roles = Get(old, "roles", <<"submitter">>)
                  /\ IF TruthyStr(old, "scope")
                     THEN "scope" \in DOMAIN new /\ new.scope = old.scope
                     ELSE "scope" \notin DOMAIN new
            /\ access.type = "access"
            /\ refresh.type = "refresh"
            /\ "jti" \in DOMAIN refresh
            /\ result.response.refresh_token # result.presented

\* a refresh token of the auth-service with a jti is exchanged in the
\* second it was issued in
C26_Witness ==
    /\ Refreshed
    /\ origin.by = "auth-service"
    /\ "jti" \in DOMAIN result.presented.claims
    /\ result.presented.claims.iat = result.response.refresh_token.claims.iat
    /\ result.presented.claims.roles = <<"reviewer", "admin">>
    /\ result.response.access_token.claims.roles = <<"reviewer", "admin">>

\* -------------------------------------------- API keys and role checks
\* the credential in hand is an access token minted for an API key
ApiKeyAccessToken ==
    origin.by = "shared.create_api_key_access_token"

\* C29: an access token minted for an API key is authorised as a plain
\* submitter on role-protected endpoints.  Whatever the scopes and the
\* permissions of the key (a scope named "admin" included), the principal
\* get_current_user builds from the token has the roles ["submitter"]; it
\* passes require_role("submitter") and never passes require_admin, nor
\* any other check that asks for more than submitter.
C29_ApiKeyIsSubmitter ==
    (ApiKeyAccessToken /\ RoleProtected) =>
        /\ result.auth.status = HTTP_200_OK =>
              /\ result.auth.user.roles = <<ROLE_SUBMITTER>>
              /\ (result.op = "require_role" /\ result.required = ROLE_SUBMITTER)
                    => result.response.status = HTTP_200_OK
        /\ (result.op = "require_role" /\ result.required = ROLE_ADMIN)
              => result.response.status # HTTP_200_OK
        /\ result.response.status = HTTP_200_OK =>
              CASE result.op = "require_role" ->
                     result.required = ROLE_SUBMITTER
                [] result.op = "require_any_role" ->
                     ROLE_SUBMITTER \in ToSet(result.required)
                [] result.op = "require_all_roles" ->
                     ToSet(result.required) \subseteq {ROLE_SUBMITTER}

\* the token of a key with the scope "admin" passes the gate and is
\* refused by require_admin
C29_Witness ==
    /\ ApiKeyAccessToken
    /\ bearer.claims.scopes = <<"admin">>
    /\ result.op = "require_role"
    /\ result.required = ROLE_ADMIN
    /\ result.auth.status = HTTP_200_OK
    /\ result.response.status = HTTP_403_FORBIDDEN

\* ------------------------------------------------ stateless validation
\* the credential in hand was issued by the api-key-service for a key
KeyToken ==
    origin.by = "api-key-service"

\* the key the credential in hand was minted from is no longer stored: it
\* was revoked, or replaced by a rotation
KeyOfTokenGone ==
    KeyToken /\ origin.key_id \notin DOMAIN db.rows

\* the credential in hand has been exchanged for new tokens before
ExchangedBefore ==
    "exchanged" \in DOMAIN origin

\* C30: token validation is stateless.  What get_current_user answers for
\* a token is decided by the token, the secret and the clock alone: an
\* access token issued for an API key is accepted before its exp and
\* refused after it, whether or not the key has since been revoked or
\* rotated and whether or not tokens were exchanged meanwhile; a refresh
\* token is exchanged for new tokens at every presentation before its exp,
\* however often it was exchanged before.
C30_StatelessValidation ==
    /\ (KeyToken /\ result.op = "get_current_user"
           /\ bearer.claims.type = "access") =>
          /\ result.response = GetCurrentUser(KeySettings, bearer, now)
          /\ now < bearer.claims.exp => result.response.status = HTTP_200_OK
          /\ now > bearer.claims.exp =>
                result.response.status = HTTP_401_UNAUTHORIZED
    /\ (KeyToken /\ result.op = "token"
           /\ result.grant_type = "refresh_token"
           /\ result.presented = bearer
           /\ bearer.claims.type = "refresh"
           /\ result.at < bearer.claims.exp) =>
          result.response.status = HTTP_200_OK

\* the access token of a key that is gone is accepted
C30_Witness ==
    /\ KeyOfTokenGone
    /\ result.op = "get_current_user"
    /\ bearer.claims.type = "access"
    /\ now > origin.at
    /\ result.response.status = HTTP_200_OK

\* a refresh token is exchanged again, after the key it came from is gone
C30_ExchangedAgain ==
    /\ KeyOfTokenGone
    /\ ExchangedBefore
    /\ origin.exchanged = "again"
    /\ result.op = "token"
    /\ result.presented = bearer
    /\ result.at > origin.at
    /\ result.response.status = HTTP_200_OK

\* ==================================================== mock OAuth provider
\* the test users of the provider
TEST_USERS ==
    [u \in {"submitter", "reviewer", "admin", "reviewer-admin"} |->
        [user_id |-> <<"user-", u, "-001">>,
         username |-> u,
         roles |-> IF u = "reviewer-admin" THEN <<"reviewer", "admin">>
                   ELSE <<u>>]]

\* get_user_by_username(username)
GetUserByUsername(username) ==
    IF username \in DOMAIN TEST_USERS
    THEN [found |-> TRUE, user |-> TEST_USERS[username]]
    ELSE [found |-> FALSE]

\* get_user_by_id(user_id)
GetUserById(user_id) ==
    LET hits == { u \in DOMAIN TEST_USERS : TEST_USERS[u].user_id = user_id }
    IN  IF hits = {} THEN [found |-> FALSE]
        ELSE [found |-> TRUE, user |-> TEST_USERS[CHOOSE u \in hits : TRUE]]

\* AuthCodeStore(): no codes; drawn counts the random codes generated so
\* far by this process
EmptyStore ==
    [started |-> TRUE, codes |-> <<>>, drawn |-> 0]

\* secrets.token_urlsafe(32): the n-th draw of the process; no draw repeats
\* an earlier one
TokenUrlsafe(n) ==
    [token_urlsafe |-> n]

\* AuthCodeStore.store(auth_code)
StoreCode(store, auth_code) ==
    [store EXCEPT !.codes = Put(@, auth_code.code, auth_code)]

\* AuthCodeStore.delete(code)
DeleteCode(store, code) ==
    IF code \in DOMAIN store.codes
    THEN [store EXCEPT !.codes = Without(@, code)]
    ELSE store

\* GET /authorize with the query q at UTC time t
Authorize(store, q, t) ==
    IF q.response_type # "code"
    THEN [store |-> store,
          response |-> HttpError(HTTP_400_BAD_REQUEST,
                          <<"Invalid response_type. Only 'code' is supported.">>)]
    ELSE IF q.client_id = ""
    THEN [store |-> store,
          response |-> HttpError(HTTP_400_BAD_REQUEST, <<"client_id is required">>)]
    ELSE IF ~TruthyStr(q, "username")
    THEN [store |-> store,
          response |-> [status |-> HTTP_200_OK,
                        message |-> "Mock OAuth - Please provide username"]]
    ELSE IF ~GetUserByUsername(q.username).found
    THEN [store |-> store,
          response |-> HttpError(HTTP_401_UNAUTHORIZED,
                          <<"User '", q.username, "' not found">>)]
    ELSE LET user == GetUserByUsername(q.username).user
             auth_code == TokenUrlsafe(store.drawn + 1)
             base == [code |-> auth_code, user_id |-> user.user_id,
                      client_id |-> q.client_id, redirect_uri |-> q.redirect_uri,
                      expires_at |-> t + CODE_EXPIRY_MINUTES * SecondsPerMinute]
             code_data == IF "scope" \in DOMAIN q
                          THEN Put(base, "scope", q.scope) ELSE base
             url == [redirect_uri |-> q.redirect_uri, code |-> auth_code]
         IN  [store |-> StoreCode([store EXCEPT !.drawn = @ + 1], code_data),
              response |-> [status |-> HTTP_302_FOUND,
                            url |-> IF TruthyStr(q, "state")
                                    THEN Put(url, "state", q.state) ELSE url]]

\* Settings() of the provider
MockSettings ==
    [ACCESS_TOKEN_EXPIRY_MINUTES |-> 15]

\* create_access_token and create_refresh_token of the provider, by the
\* arguments the token handler passes
MockTokens(user, scope) ==
    LET access == [by |-> "mock-oauth", type |-> "access", sub |-> user.user_id,
                   username |-> user.username, roles |-> user.roles]
        refresh == [by |-> "mock-oauth", type |-> "refresh", sub |-> user.user_id]
        WithScope(tok) == IF scope.given THEN Put(tok, "scope", scope.value) ELSE tok
        answer == [status |-> HTTP_200_OK,
                   access_token |-> WithScope(access),
                   token_type |-> "Bearer",
                   expires_in |-> MockSettings.ACCESS_TOKEN_EXPIRY_MINUTES
                                    * SecondsPerMinute,
                   refresh_token |-> WithScope(refresh)]
    IN  IF scope.given THEN Put(answer, "scope", scope.value) ELSE answer

\* scope=auth_code.scope, scope=token_data.get("scope")
ScopeOf(d) ==
    IF "scope" \in DOMAIN d THEN [given |-> TRUE, value |-> d.scope]
    ELSE [given |-> FALSE]

\* the refresh_token branch of POST /token; decodes tells whether
\* decode_token accepts a token the provider issued
RefreshGrant(q, decodes) ==
    IF "refresh_token" \notin DOMAIN q
    THEN HttpError(HTTP_400_BAD_REQUEST,
                   <<"refresh_token is required for refresh_token grant type">>)
    ELSE LET token_data == q.refresh_token
         IN  IF ~(token_data.by = "mock-oauth" /\ decodes)
             THEN HttpError(HTTP_401_UNAUTHORIZED, <<"Invalid refresh token">>)
             ELSE IF token_data.type # "refresh"
             THEN HttpError(HTTP_401_UNAUTHORIZED, <<"Invalid token type">>)
             ELSE IF ~GetUserById(token_data.sub).found
             THEN HttpError(HTTP_401_UNAUTHORIZED, <<"User not found">>)
             ELSE MockTokens(GetUserById(token_data.sub).user, ScopeOf(token_data))

\* faulty variant of OAuthToken: a used code is not deleted
OAuthToken_KeepsCode(store, q, decodes, t) ==
    IF q.grant_type = "authorization_code"
    THEN IF "code" \notin DOMAIN q
         THEN [store |-> store,
               response |-> HttpError(HTTP_400_BAD_REQUEST,
                   <<"code is required for authorization_code grant type">>)]
         ELSE IF q.code \notin DOMAIN store.codes
         THEN [store |-> store,
               response |-> HttpError(HTTP_400_BAD_REQUEST,
                   <<"Invalid or expired authorization code">>)]
         ELSE LET auth_code == store.codes[q.code]
              IN  IF TruthyStr(q, "redirect_uri")
                     /\ auth_code.redirect_uri # q.redirect_uri
                  THEN [store |-> store,
                        response |-> HttpError(HTTP_400_BAD_REQUEST,
                                        <<"redirect_uri does not match">>)]
                  ELSE IF auth_code.expires_at < t
                  THEN [store |-> DeleteCode(store, q.code),
                        response |-> HttpError(HTTP_400_BAD_REQUEST,
                                        <<"Authorization code has expired">>)]
                  ELSE IF ~GetUserById(auth_code.user_id).found
                  THEN [store |-> store,
                        response |-> HttpError(HTTP_400_BAD_REQUEST,
                                        <<"User not found">>)]
                  ELSE [store |-> store,
                        response |-> MockTokens(GetUserById(auth_code.user_id).user,
                                                ScopeOf(auth_code))]
    ELSE IF q.grant_type = "refresh_token"
    THEN [store |-> store, response |-> RefreshGrant(q, decodes)]
    ELSE [store |-> store,
          response |-> HttpError(HTTP_400_BAD_REQUEST,
                          <<"Unsupported grant_type: ", q.grant_type>>)]

\* POST /token of the provider with the form q at UTC time t
OAuthToken(store, q, decodes, t) ==
    IF q.grant_type = "authorization_code"
    THEN IF "code" \notin DOMAIN q
         THEN [store |-> store,
               response |-> HttpError(HTTP_400_BAD_REQUEST,
                   <<"code is required for authorization_code grant type">>)]
         ELSE IF q.code \notin DOMAIN store.codes
         THEN [store |-> store,
               response |-> HttpError(HTTP_400_BAD_REQUEST,
                   <<"Invalid or expired authorization code">>)]
         ELSE LET auth_code == store.codes[q.code]
              IN  IF TruthyStr(q, "redirect_uri")
                     /\ auth_code.redirect_uri # q.redirect_uri
                  THEN [store |-> store,
                        response |-> HttpError(HTTP_400_BAD_REQUEST,
                                        <<"redirect_uri does not match">>)]
                  ELSE IF auth_code.expires_at < t
                  THEN [store |-> DeleteCode(store, q.code),
                        response |-> HttpError(HTTP_400_BAD_REQUEST,
                                        <<"Authorization code has expired">>)]
                  ELSE IF ~GetUserById(auth_code.user_id).found
                  THEN [store |-> store,
                        response |-> HttpError(HTTP_400_BAD_REQUEST,
                                        <<"User not found">>)]
                  ELSE [store |-> DeleteCode(store, q.code),
                        response |-> MockTokens(GetUserById(auth_code.user_id).user,
                                                ScopeOf(auth_code))]
    ELSE IF q.grant_type = "refresh_token"
    THEN [store |-> store, response |-> RefreshGrant(q, decodes)]
    ELSE [store |-> store,
          response |-> HttpError(HTTP_400_BAD_REQUEST,
                          <<"Unsupported grant_type: ", q.grant_type>>)]

\* ---------------------------------------------- the provider's environment
RegisteredUri ==
    "https://airlock.test/callback"

\* the queries sent to /authorize
AuthorizeRequests ==
    { [response_type |-> "code", client_id |-> "airlock",
       redirect_uri |-> RegisteredUri, username |-> "submitter"],
      [response_type |-> "code", client_id |-> "airlock",
       redirect_uri |-> RegisteredUri, username |-> "admin",
       scope |-> "openid", state |-> "xyz"],
      [response_type |-> "code", client_id |-> "airlock",
       redirect_uri |-> RegisteredUri],
      [response_type |-> "code", client_id |-> "airlock",
       redirect_uri |-> RegisteredUri, username |-> "ghost"],
      [response_type |-> "code", client_id |-> "",
       redirect_uri |-> RegisteredUri, username |-> "submitter"],
      [response_type |-> "token", client_id |-> "airlock",
       redirect_uri |-> RegisteredUri, username |-> "submitter"] }

\* the codes a client may present: every code drawn so far, and one the
\* provider never issued
PresentableCodes ==
    { TokenUrlsafe(n) : n \in 0..auth_code_store.drawn }

\* the refresh tokens a client may present: the token in hand, and one the
\* provider did not issue
PresentableRefreshTokens ==
    { [by |-> "hand", type |-> "refresh", sub |-> TEST_USERS["admin"].user_id] }
    \cup (IF bearer = NoToken THEN {} ELSE {bearer})

\* the forms sent to /token
OAuthTokenRequests ==
    { [grant_type |-> "authorization_code"], [grant_type |-> "refresh_token"],
      [grant_type |-> "password"] }
    \cup { [grant_type |-> "authorization_code", code |-> c] :
             c \in PresentableCodes }
    \cup { [grant_type |-> "authorization_code", code |-> c, redirect_uri |-> u] :
             c \in PresentableCodes,
             u \in {RegisteredUri, "https://evil.test/callback", ""} }
    \cup { [grant_type |-> "refresh_token", refresh_token |-> r] :
             r \in PresentableRefreshTokens }

InitOAuth ==
    /\ now = StartTime
    /\ tz = CHOOSE z \in Zones : TRUE
    /\ settings = CHOOSE st \in SettingsChoices : TRUE
    /\ bearer = NoToken
    /\ origin = [by |-> "nobody"]
    /\ result = [op |-> "start"]
    /\ ticks = 0
    /\ scheme_error = HTTP_401_UNAUTHORIZED
    /\ db = [started |-> FALSE]
    /\ auth_code_store = EmptyStore

\* the instants the clock may jump to while codes are followed: the next
\* second, and the expiry of a stored code and the second after it
OAuthTickTargets ==
    {now + 1} \cup
    UNION { {auth_code_store.codes[c].expires_at,
             auth_code_store.codes[c].expires_at + 1} :
              c \in DOMAIN auth_code_store.codes }

OAuthTick ==
    /\ Ready
    /\ ticks < MaxTicks
    /\ \E t \in OAuthTickTargets :
        /\ t > now
        /\ now' = t
    /\ ticks' = ticks + 1
    /\ result' = [op |-> "tick"]
    /\ UNCHANGED <<tz, settings, bearer, origin, scheme_error, db, auth_code_store>>

\* the handlers are coroutines without an await: each request is handled
\* from its first line to its response before the next one starts
CallAuthorize ==
    /\ Ready
    /\ auth_code_store.drawn < MaxCodes
    /\ \E q \in AuthorizeRequests :
        LET r == Authorize(auth_code_store, q, now)
        IN  /\ auth_code_store' = r.store
            /\ result' = [op |-> "authorize", request |-> q, at |-> now,
                          before |-> auth_code_store, response |-> r.response]
    /\ UNCHANGED <<now, tz, settings, bearer, origin, ticks, scheme_error, db>>

CallOAuthToken ==
    /\ Ready
    /\ \E q \in OAuthTokenRequests, decodes \in BOOLEAN :
        LET r == OAuthToken(auth_code_store, q, decodes, now)
        IN  /\ auth_code_store' = r.store
            /\ result' = [op |-> "oauth_token", request |-> q, at |-> now,
                          before |-> auth_code_store, response |-> r.response]
    /\ UNCHANGED <<now, tz, settings, bearer, origin, ticks, scheme_error, db>>

\* the client keeps the refresh token the provider has just returned
TakeOAuthToken ==
    /\ result.op = "oauth_token"
    /\ result.response.status = HTTP_200_OK
    /\ bearer = NoToken
    /\ bearer' = result.response.refresh_token
    /\ origin' = [by |-> "mock-oauth", request |-> result.request]
    /\ result' = [op |-> "take"]
    /\ UNCHANGED <<now, tz, settings, ticks, scheme_error, db, auth_code_store>>

NextOAuth ==
    \/ OAuthTick
    \/ CallAuthorize
    \/ CallOAuthToken
    \/ TakeOAuthToken
    \/ ReadResponse

SpecOAuth ==
    InitOAuth /\ [][NextOAuth]_vars

\* ------------------------------------------- authorization codes, one use
\* the codes issued so far that are no longer stored
SpentCodes ==
    { TokenUrlsafe(n) : n \in 1..auth_code_store.drawn }
        \ DOMAIN auth_code_store.codes

\* the request just answered was an authorization_code exchange of a code
\* that was stored when it arrived
ExchangeOfStored ==
    /\ result.op = "oauth_token"
    /\ result.request.grant_type = "authorization_code"
    /\ "code" \in DOMAIN result.request
    /\ result.request.code \in DOMAIN result.before.codes

\* the request just answered was refused for its redirect_uri
RedirectMismatch ==
    /\ result.op = "oauth_token"
    /\ result.response.status = HTTP_400_BAD_REQUEST
    /\ result.response.detail = <<"redirect_uri does not match">>

\* every answer of /token that carries tokens for a code took that code
\* out of the store; an attempt on an expired code that is not refused
\* for its redirect_uri took it out as well; a refusal for the
\* redirect_uri left the store as it was
ExchangeOutcome ==
    /\ (result.op = "oauth_token"
          /\ result.request.grant_type = "authorization_code"
          /\ result.response.status = HTTP_200_OK) =>
            /\ ExchangeOfStored
            /\ result.request.code \notin DOMAIN auth_code_store.codes
    /\ (ExchangeOfStored /\ ~RedirectMismatch
          /\ result.before.codes[result.request.code].expires_at < result.at) =>
            /\ result.response.status = HTTP_400_BAD_REQUEST
            /\ result.request.code \notin DOMAIN auth_code_store.codes
    /\ RedirectMismatch =>
            /\ ExchangeOfStored
            /\ auth_code_store = result.before

\* C27: an authorization code of the mock OAuth provider is single-use.
\* Over any sequence of requests, tokens are returned for a code only while
\* it is stored, and that answer removes it; an attempt on an expired code
\* removes it too; a request refused for a redirect_uri mismatch leaves the
\* code in the store; and a code that has left the store never returns to
\* it, so that at most one exchange per code returns tokens.
C27_CodeSingleUse ==
    [][ /\ ExchangeOutcome'
        /\ SpentCodes \subseteq SpentCodes'
        /\ \A c \in SpentCodes :
             ~(/\ result'.op = "oauth_token"
               /\ result'.request.grant_type = "authorization_code"
               /\ "code" \in DOMAIN result'.request
               /\ result'.request.code = c
               /\ result'.response.status = HTTP_200_OK) ]_vars

\* C27 as stated: after an attempt on an expired code, whatever else the
\* request carries, the code is no longer in the store.
C27_ExpiredAttemptRemoves ==
    (ExchangeOfStored
       /\ result.before.codes[result.request.code].expires_at < result.at) =>
        result.request.code \notin DOMAIN auth_code_store.codes

\* a code that was exchanged for tokens is presented again and refused
C27_Witness ==
    /\ result.op = "oauth_token"
    /\ result.request.grant_type = "authorization_code"
    /\ "code" \in DOMAIN result.request
    /\ result.request.code \in SpentCodes
    /\ result.request.code \notin DOMAIN result.before.codes
    /\ result.response.status = HTTP_400_BAD_REQUEST
    /\ origin.by = "mock-oauth"
    /\ origin.request.grant_type = "authorization_code"
    /\ origin.request.code = result.request.code
====
